---- MODULE Spec2Model ----
(***************************************************************************)
(* A model of ProtoRPC's client-side RPC life cycle (transport.py), its    *)
(* protocol registry (experimental/wsgi_handlers.py) and its service       *)
(* meta-class (remote.py).                                                 *)
(*                                                                         *)
(* Python's None is the string "None".  An operation that can raise is an  *)
(* operator returning a record that holds the object after the call and    *)
(* the exception that left the call (NoException when it returned).        *)
(***************************************************************************)
EXTENDS Integers, Sequences, FiniteSets, TLC

None == "None"

(***************************************************************************)
(* The state.                                                              *)
(*                                                                         *)
(* The client side of one RPC (transport.py):                              *)
(*   urlfetch: whether the urlfetch library was importable;                *)
(*   rpc:      the Rpc of the latest successful send_rpc (NoRpc before);   *)
(*   started:  how many times _start_rpc has been entered;                 *)
(*   fetches:  how many blocking fetches rpc has performed;                *)
(*   last:     the latest call of the client and how it ended.             *)
(* One Protocols object (experimental/wsgi_handlers.py):                   *)
(*   protocols:  its two dictionaries;                                     *)
(*   made:       how many ProtocolConfig constructions were attempted;     *)
(*   registered: the configs add_protocol_config has accepted;             *)
(*   regLast:    the latest call on the registry and how it ended.         *)
(* One ProtocolConfig construction:                                        *)
(*   newArgs:   the arguments of the constructor;                          *)
(*   newConfig: what the constructor came to (NotConstructed before).      *)
(* The service classes of a program (remote.py):                           *)
(*   classes: the classes _ServiceClass has created, Service first;        *)
(*   svcLast: how the latest class definition ended, and which inherited   *)
(*            remote methods its body declared again with other types.     *)
(* One service instance with one remote method (remote.py):                *)
(*   remote_method: the remote method (its _RemoteMethodInfo);             *)
(*   bodyRuns: how many times the user's method body has been executed;    *)
(*   invoked:  how many times the remote method has been called;           *)
(*   invLast:  the latest call and how it ended.                           *)
(* One Stub of a service with one remote method, over a transport:         *)
(*   remote:    the _RemoteMethodInfo of the stub's method;                *)
(*   sent:      the calls of transport.send_rpc, each with what it         *)
(*              returned;                                                  *)
(*   stubCalls: how many stub methods have been called;                    *)
(*   stubLast:  the latest call of a stub method and how it ended.         *)
(* One server application over one service (experimental/wsgi_service.py,  *)
(* experimental/wsgi_handlers.py):                                         *)
(*   app:     which application serves, service_app or ServiceApp;         *)
(*   service: whether the service class defines initialize_request_state;  *)
(*   served:  how many requests the application has been called with;      *)
(*   srvLast: the latest request, its HTTP status and the calls made on    *)
(*            the service instance created for it, in order.               *)
(* One message class and its descriptors (descriptor.py):                  *)
(*   definition:   the message class as it was declared;                   *)
(*   described:    describe_message(definition), NoDescriptor before;       *)
(*   materialized: the class defined from that descriptor, NoDefinition    *)
(*                 before;                                                 *)
(*   redescribed:  describe_message(materialized), NoDescriptor before.    *)
(* The variables of the later sections (the import of file descriptors,    *)
(* Service.definition_name, the late-bound types of a remote method,       *)
(* ServiceApp.run_application, a hierarchy of service classes and two      *)
(* callers of one Rpc) are described at the head of their sections.        *)
(***************************************************************************)
VARIABLES urlfetch, rpc, started, fetches, last
VARIABLES protocols, made, registered, regLast
VARIABLES newArgs, newConfig
VARIABLES classes, svcLast
VARIABLES remote_method, bodyRuns, invoked, invLast
VARIABLES remote, sent, stubCalls, stubLast
VARIABLES app, service, served, srvLast
VARIABLES definition, described, materialized, redescribed
VARIABLES modules, units, preexisting, imported, impLast
VARIABLES sys_modules, definition_names, dnLast
VARIABLES namespace, method_info, reads, lbLast
VARIABLES handled, appLast
VARIABLES hierarchy, hierLast
VARIABLES shared, pc, local, performed

rpcVars == <<urlfetch, rpc, started, fetches, last>>

regVars == <<protocols, made, registered, regLast>>

newVars == <<newArgs, newConfig>>

svcVars == <<classes, svcLast>>

invVars == <<remote_method, bodyRuns, invoked, invLast>>

stubVars == <<remote, sent, stubCalls, stubLast>>

srvVars == <<app, service, served, srvLast>>

descVars == <<definition, described, materialized, redescribed>>

impVars == <<modules, units, preexisting, imported, impLast>>

dnVars == <<sys_modules, definition_names, dnLast>>

lbVars == <<namespace, method_info, reads, lbLast>>

appVars == <<handled, appLast>>

hierVars == <<hierarchy, hierLast>>

conVars == <<shared, pc, local, performed>>

vars == <<rpcVars, regVars, newVars, svcVars, invVars, stubVars, srvVars, descVars, impVars, dnVars, lbVars, appVars, hierVars, conVars>>

\* What a step of one part of the model leaves alone.
otherThanRpc == <<regVars, newVars, svcVars, invVars, stubVars, srvVars, descVars, impVars, dnVars, lbVars, appVars, hierVars, conVars>>

otherThanProtocols == <<rpcVars, newVars, svcVars, invVars, stubVars, srvVars, descVars, impVars, dnVars, lbVars, appVars, hierVars, conVars>>

otherThanProtocolConfig == <<rpcVars, regVars, svcVars, invVars, stubVars, srvVars, descVars, impVars, dnVars, lbVars, appVars, hierVars, conVars>>

otherThanService == <<rpcVars, regVars, newVars, invVars, stubVars, srvVars, descVars, impVars, dnVars, lbVars, appVars, hierVars, conVars>>

otherThanInvocation == <<rpcVars, regVars, newVars, svcVars, stubVars, srvVars, descVars, impVars, dnVars, lbVars, appVars, hierVars, conVars>>

otherThanStub == <<rpcVars, regVars, newVars, svcVars, invVars, srvVars, descVars, impVars, dnVars, lbVars, appVars, hierVars, conVars>>

otherThanServer == <<rpcVars, regVars, newVars, svcVars, invVars, stubVars, descVars, impVars, dnVars, lbVars, appVars, hierVars, conVars>>

otherThanDescriptor == <<rpcVars, regVars, newVars, svcVars, invVars, stubVars, srvVars, impVars, dnVars, lbVars, appVars, hierVars, conVars>>

otherThanImport == <<rpcVars, regVars, newVars, svcVars, invVars, stubVars, srvVars, descVars, dnVars, lbVars, appVars, hierVars, conVars>>

otherThanDefinitionName == <<rpcVars, regVars, newVars, svcVars, invVars, stubVars, srvVars, descVars, impVars, lbVars, appVars, hierVars, conVars>>

otherThanLateBinding == <<rpcVars, regVars, newVars, svcVars, invVars, stubVars, srvVars, descVars, impVars, dnVars, appVars, hierVars, conVars>>

otherThanServiceApp == <<rpcVars, regVars, newVars, svcVars, invVars, stubVars, srvVars, descVars, impVars, dnVars, lbVars, hierVars, conVars>>

otherThanHierarchy == <<rpcVars, regVars, newVars, svcVars, invVars, stubVars, srvVars, descVars, impVars, dnVars, lbVars, appVars, conVars>>

otherThanConcurrent == <<rpcVars, regVars, newVars, svcVars, invVars, stubVars, srvVars, descVars, impVars, dnVars, lbVars, appVars, hierVars>>

(***************************************************************************)
(* Bounds of the model.                                                    *)
(***************************************************************************)
\* How many times send_rpc may start an RPC in one behaviour.
MaxCalls == 2
\* How many blocking fetches one Rpc may perform in one behaviour.
MaxFetch == 2
\* How many ProtocolConfig objects may be constructed in one behaviour.
MaxAdds == 3
\* How many alternative content types a ProtocolConfig may be given when it
\* is constructed on its own, and when it is constructed to be registered.
MaxAlternates == 2
MaxRegisteredAlternates == 1
\* How many service classes a program may define, and how many bases one
\* class may name.
MaxClasses == 2
MaxBases == 2
\* How many times a remote method may be called.
MaxInvocations == 2
\* How many times the methods of a stub may be called.
MaxStubCalls == 2
\* How many requests a server application may be called with.
MaxRequests == 1
\* How many fields a message class may declare.
MaxFields == 2

(***************************************************************************)
(* remote.RpcState and remote.RpcStatus, and the exceptions.               *)
(***************************************************************************)
RUNNING == "RUNNING"
OK == "OK"

ErrorStates ==
  {"REQUEST_ERROR", "SERVER_ERROR", "NETWORK_ERROR", "APPLICATION_ERROR",
   "METHOD_NOT_FOUND_ERROR"}

RpcState == {OK, RUNNING} \cup ErrorStates

\* An RpcStatus message; state is its one required field.
RpcStatus(state, error_message, error_name) ==
  [state |-> state, error_message |-> error_message, error_name |-> error_name]

NoException == [type |-> None, message |-> None, name |-> None]

Exception(type, message) == [type |-> type, message |-> message, name |-> None]

\* Message.check_initialized of a request and of a status: every required
\* field is set.
check_initialized(message) == message.value # None

status_check_initialized(status) == status.state # None

\* remote.check_rpc_status: raises the error of an error state.
check_rpc_status(status) ==
  IF status.state \in ErrorStates
    THEN [type |-> status.state, message |-> status.error_message,
          name |-> IF status.state = "APPLICATION_ERROR"
                     THEN status.error_name ELSE None]
    ELSE NoException

(***************************************************************************)
(* The values the model draws its inputs from.                             *)
(***************************************************************************)
\* Request messages of a type whose field `value' is required.
Requests == {[value |-> "request"], [value |-> None]}

\* Response messages, and a value that is no Message.
ResponseMessages == {"response1", "response2"}
NonMessage == "10"

\* The statuses handed to set_status or carried by an error body.
Statuses ==
  {RpcStatus(s, "boom", None) : s \in RpcState}
    \cup {RpcStatus("APPLICATION_ERROR", "an error", "blam"),
          RpcStatus(None, None, None)}

\* The protocol's content type, and another one.
CONTENT_TYPE == "application/json"
ContentTypes == {CONTENT_TYPE, "text/plain"}

\* What a body (or an HTTP reason phrase) is: its text, and what the
\* protocol decodes it to.
MessagePayload(m) ==
  [text |-> m, tag |-> "Message", message |-> m,
   status |-> RpcStatus(None, None, None)]

StatusPayload(s) ==
  [text |-> "encoded status", tag |-> "RpcStatus", message |-> None,
   status |-> s]

JunkPayload(t) ==
  [text |-> t, tag |-> "junk", message |-> None,
   status |-> RpcStatus(None, None, None)]

NoPayload == JunkPayload(None)

\* The statuses a server sends in the body of an error response.
BodyStatuses ==
  {RpcStatus("REQUEST_ERROR", "boom", None),
   RpcStatus("APPLICATION_ERROR", "an error", "blam"),
   RpcStatus(OK, "boom", None)}

Bodies ==
  {MessagePayload("response1"), JunkPayload("a text message")}
    \cup {StatusPayload(s) : s \in BodyStatuses}

Reasons ==
  {JunkPayload("a server error"),
   StatusPayload(RpcStatus("REQUEST_ERROR", "boom", None))}

\* protocol.decode_message: the message of the asked type, or an exception.
decode_message(message_type, content) ==
  IF content.tag = message_type
    THEN [raised |-> NoException, message |-> content.message,
          status |-> content.status]
    ELSE [raised |-> Exception("DecodeError", content.text),
          message |-> None, status |-> RpcStatus(None, None, None)]

(***************************************************************************)
(* class Rpc.                                                              *)
(***************************************************************************)
\* Rpc.__init__.  `id' tells the Rpc objects of one behaviour apart.
Rpc(id, request) ==
  [id |-> id, request |-> request, response |-> None, state |-> RUNNING,
   error_message |-> None, error_name |-> None]

\* No Rpc has been created yet.
NoRpc ==
  [id |-> 0, request |-> [value |-> None], response |-> None, state |-> None,
   error_message |-> None, error_name |-> None]

Returned(self) == [rpc |-> self, raised |-> NoException]

Raised(self, exception) == [rpc |-> self, raised |-> exception]

\* Rpc.__set_state without its check that the Rpc is still RUNNING.
Rpc__set_state_unchecked(self, state, error_message, error_name) ==
  IF state = RUNNING
    THEN [rpc |-> self, raised |-> Exception("RpcStateError", "RPC is already in RUNNING state")]
    ELSE [rpc |-> [self EXCEPT !.state = state,
                               !.error_message = error_message,
                               !.error_name = error_name],
          raised |-> NoException]

\* Rpc.__set_state without its check that the new state is not RUNNING.
Rpc__set_state_to_running(self, state, error_message, error_name) ==
  IF self.state # RUNNING
    THEN Raised(self, Exception("RpcStateError", "RPC must be in RUNNING state"))
  ELSE Returned([self EXCEPT !.state = state,
                             !.error_message = error_message,
                             !.error_name = error_name])

\* Rpc.__set_state
Rpc__set_state(self, state, error_message, error_name) ==
  IF self.state # RUNNING
    THEN Raised(self, Exception("RpcStateError", "RPC must be in RUNNING state"))
  ELSE IF state = RUNNING
    THEN Raised(self, Exception("RpcStateError", "RPC is already in RUNNING state"))
  ELSE Returned([self EXCEPT !.state = state,
                             !.error_message = error_message,
                             !.error_name = error_name])

\* Rpc.set_response: the response is stored before the state is checked.
set_response(self, response) ==
  IF response \notin ResponseMessages
    THEN Raised(self, Exception("TypeError", "Expected Message type"))
    ELSE Rpc__set_state([self EXCEPT !.response = response], OK, None, None)

\* Rpc.set_status without the validation of the status.
set_status_unvalidated(self, status) ==
  Rpc__set_state(self, status.state, status.error_message, status.error_name)

\* Rpc.set_status.  When __set_state raises, self is as it was.
set_status(self, status) ==
  IF ~status_check_initialized(status)
    THEN Raised(self, Exception("ValidationError", "state is required"))
    ELSE Rpc__set_state(self, status.state, status.error_message, status.error_name)

(***************************************************************************)
(* class HttpTransport: what one blocking fetch can come to.               *)
(*   kind "response":  the server answered with a status code;             *)
(*   kind "url_error": urllib2.URLError or urlfetch.DownloadError;         *)
(*   kind "invalid_url", "too_large": urlfetch.InvalidURLError and         *)
(*     urlfetch.ResponseTooLargeError.                                     *)
(***************************************************************************)
Outcome(kind, code, content_type, body, reason) ==
  [kind |-> kind, code |-> code, content_type |-> content_type,
   body |-> body, reason |-> reason]

NoOutcome == Outcome(None, 0, None, NoPayload, NoPayload)

StatusCodes == {200, 302, 500}

HttpOutcomes ==
  {Outcome("response", c, t, b, r) :
     c \in StatusCodes, t \in ContentTypes, b \in Bodies, r \in Reasons}

UrlErrorOutcome == Outcome("url_error", 0, None, NoPayload, JunkPayload("a bad connection"))

\* The fetches of the urllib2 backend: the reason phrase is part of them.
UrllibOutcomes == HttpOutcomes \cup {UrlErrorOutcome}

\* The fetches of the urlfetch backend, which never sees the reason phrase.
UrlfetchOutcomes ==
  {o \in HttpOutcomes : o.reason = JunkPayload("a server error")}
    \cup {UrlErrorOutcome,
          Outcome("invalid_url", 0, None, NoPayload, JunkPayload("invalid url")),
          Outcome("too_large", 0, None, NoPayload, JunkPayload("too large"))}

Outcomes(with_urlfetch) == IF with_urlfetch THEN UrlfetchOutcomes ELSE UrllibOutcomes

\* The result of get_response: the encoded response, or an exception.
Content(content) == [raised |-> NoException, content |-> content]

Throw(exception) == [raised |-> exception, content |-> NoPayload]

\* HttpTransport.__HttpRequest._http_error_to_exception: the exception it
\* raises, NoException when it returns.
http_error_to_exception(content_type, content) ==
  IF content_type = CONTENT_TYPE
    THEN LET decoded == decode_message("RpcStatus", content)
         IN  IF decoded.raised # NoException
               THEN NoException
               ELSE check_rpc_status(decoded.status)
    ELSE NoException

\* HttpTransport.__UrllibRequest.get_response: urlopen raises HTTPError for
\* every code outside 2xx; the decoder is handed err.msg.
Urllib_get_response(outcome) ==
  IF outcome.kind = "response"
    THEN IF outcome.code \in 200..299
           THEN Content(outcome.body)
           ELSE LET status_error ==
                      IF outcome.code >= 400
                        THEN http_error_to_exception(outcome.content_type, outcome.reason)
                        ELSE NoException
                IN  IF status_error # NoException
                      THEN Throw(status_error)
                      ELSE Throw(Exception("SERVER_ERROR", outcome.reason.text))
    ELSE Throw(Exception("NETWORK_ERROR", outcome.reason.text))

\* HttpTransport.__UrlfetchRequest.get_response.
Urlfetch_get_response(outcome) ==
  IF outcome.kind = "response"
    THEN IF outcome.code >= 400
           THEN LET status_error ==
                      http_error_to_exception(outcome.content_type, outcome.body)
                IN  IF status_error # NoException
                      THEN Throw(status_error)
                      ELSE Throw(Exception("SERVER_ERROR", outcome.body.text))
           ELSE Content(outcome.body)
  ELSE IF outcome.kind = "invalid_url"
    THEN Throw(Exception("AttributeError", "__urlfetch"))
  ELSE Throw(Exception("NETWORK_ERROR", outcome.reason.text))

get_response(with_urlfetch, outcome) ==
  IF with_urlfetch THEN Urlfetch_get_response(outcome) ELSE Urllib_get_response(outcome)

\* wait_impl of HttpTransport._start_rpc: no exception is caught here.
wait_impl(self, with_urlfetch, outcome) ==
  LET encoded_response == get_response(with_urlfetch, outcome)
      decoded == decode_message("Message", encoded_response.content)
  IN  IF encoded_response.raised # NoException
        THEN Raised(self, encoded_response.raised)
      ELSE IF decoded.raised # NoException
        THEN Raised(self, decoded.raised)
      ELSE set_response(self, decoded.message)

\* Rpc.wait: whether it fetched, the Rpc after it and what it raised.
wait(self, with_urlfetch, outcome) ==
  IF self.state = RUNNING
    THEN [fetched |-> TRUE] @@ wait_impl(self, with_urlfetch, outcome)
    ELSE [fetched |-> FALSE] @@ Returned(self)

\* The properties Rpc.response, Rpc.error_message and Rpc.error_name, and
\* wait() itself: what the caller gets after the wait.
Attribute(self, how) ==
  CASE how = "response" -> self.response
    [] how = "error_message" -> self.error_message
    [] how = "error_name" -> self.error_name
    [] how = "wait" -> None

Observers == {"response", "error_message", "error_name", "wait"}

(***************************************************************************)
(* The operations of the client side.                                      *)
(***************************************************************************)
Call(op, request, raised, result, fetched, outcome) ==
  [op |-> op, request |-> request, raised |-> raised, result |-> result,
   fetched |-> fetched, outcome |-> outcome, argument |-> None]

\* A call of set_response or set_status, with what it was given.
CallWith(argument, call) == [call EXCEPT !.argument = argument]

NoRequest == [value |-> None]

\* No RPC has been sent.
NoCalls ==
  /\ rpc = NoRpc
  /\ started = 0
  /\ fetches = 0
  /\ last = Call(None, NoRequest, NoException, None, FALSE, NoOutcome)

\* HttpTransport.__init__ picks the backend that could be imported.
InitRpc == urlfetch \in BOOLEAN /\ NoCalls

\* The client side while the model looks at another part.
RpcIdle == urlfetch = FALSE /\ NoCalls

\* send_rpc entering _start_rpc before the request is validated.
send_rpc_start_first(request) ==
  /\ started < MaxCalls
  /\ started' = started + 1
  /\ IF ~check_initialized(request)
       THEN /\ last' = Call("send_rpc", request,
                            Exception("ValidationError", "value is required"),
                            None, FALSE, NoOutcome)
            /\ UNCHANGED <<rpc, fetches>>
       ELSE /\ rpc' = Rpc(started + 1, request)
            /\ fetches' = 0
            /\ last' = Call("send_rpc", request, NoException, None, FALSE, NoOutcome)
  /\ UNCHANGED <<urlfetch, otherThanRpc>>

\* Transport.send_rpc over HttpTransport._start_rpc.
send_rpc(request) ==
  IF ~check_initialized(request)
    THEN /\ last' = Call("send_rpc", request,
                         Exception("ValidationError", "value is required"),
                         None, FALSE, NoOutcome)
         /\ UNCHANGED <<urlfetch, rpc, started, fetches, otherThanRpc>>
    ELSE /\ started < MaxCalls
         /\ started' = started + 1
         /\ rpc' = Rpc(started + 1, request)
         /\ fetches' = 0
         /\ last' = Call("send_rpc", request, NoException, None, FALSE, NoOutcome)
         /\ UNCHANGED <<urlfetch, otherThanRpc>>

\* The caller reads rpc.response, rpc.error_message or rpc.error_name, or
\* calls rpc.wait(); the fetch, when there is one, comes to `outcome'.
Observe(how, outcome) ==
  /\ rpc # NoRpc
  /\ IF rpc.state = RUNNING
       THEN fetches < MaxFetch /\ outcome \in Outcomes(urlfetch)
       ELSE outcome = NoOutcome
  /\ LET w == wait(rpc, urlfetch, outcome)
     IN  /\ rpc' = w.rpc
         /\ fetches' = IF w.fetched THEN fetches + 1 ELSE fetches
         /\ last' = Call(how, NoRequest, w.raised,
                         IF w.raised = NoException THEN Attribute(w.rpc, how) ELSE None,
                         w.fetched, IF w.fetched THEN outcome ELSE NoOutcome)
  /\ UNCHANGED <<urlfetch, started, otherThanRpc>>

\* A transport (or a test) calls rpc.set_response(response).
SetResponse(response) ==
  /\ rpc # NoRpc
  /\ LET r == set_response(rpc, response)
     IN  /\ rpc' = r.rpc
         /\ last' = CallWith(response,
                             Call("set_response", NoRequest, r.raised, None, FALSE, NoOutcome))
  /\ UNCHANGED <<urlfetch, started, fetches, otherThanRpc>>

\* A transport (or a test) calls rpc.set_status(status).
SetStatus(status) ==
  /\ rpc # NoRpc
  /\ LET r == set_status(rpc, status)
     IN  /\ rpc' = r.rpc
         /\ last' = CallWith(status,
                             Call("set_status", NoRequest, r.raised, None, FALSE, NoOutcome))
  /\ UNCHANGED <<urlfetch, started, fetches, otherThanRpc>>

NextRpc ==
  \/ \E request \in Requests : send_rpc(request)
  \/ \E how \in Observers, outcome \in UrllibOutcomes \cup UrlfetchOutcomes \cup {NoOutcome} : Observe(how, outcome)
  \/ \E response \in ResponseMessages \cup {NonMessage} : SetResponse(response)
  \/ \E status \in Statuses : SetStatus(status)

(***************************************************************************)
(* experimental/wsgi_handlers.py: ProtocolConfig and Protocols.            *)
(***************************************************************************)
\* The content types of the registry's inputs, in the order of Python's
\* string comparison.
ContentTypeOrder == <<"application/json", "text/html", "text/plain">>

RegistryContentTypes == {ContentTypeOrder[i] : i \in 1..Len(ContentTypeOrder)}

Rank(content_type) ==
  CHOOSE i \in 1..Len(ContentTypeOrder) : ContentTypeOrder[i] = content_type

\* The protocol implementations and their CONTENT_TYPE.
ProtocolImplementations == {"protojson"}

ProtocolContentType(protocol) == "application/json"

ProtocolNames == {"json", "other"}

RECURSIVE Insert(_, _)
Insert(x, s) ==
  IF s = <<>> THEN <<x>>
  ELSE IF Rank(x) <= Rank(Head(s)) THEN <<x>> \o s
  ELSE <<Head(s)>> \o Insert(x, Tail(s))

\* Python's sorted() of a tuple of content types.
RECURSIVE sorted(_)
sorted(s) == IF s = <<>> THEN <<>> ELSE Insert(Head(s), sorted(Tail(s)))

Config(id, protocol, name, default_content_type, alternative_content_types) ==
  [id |-> id, protocol |-> protocol, name |-> name,
   default_content_type |-> default_content_type,
   alternate_content_types |-> alternative_content_types,
   content_types |-> <<default_content_type>> \o alternative_content_types]

NoConfig == Config(0, None, None, None, <<>>)

\* ProtocolConfig.__init__ comparing neighbours without sorting first.
ProtocolConfig_unsorted(id, protocol, name, default_content_type, alternative_content_types) ==
  LET default == IF default_content_type = None
                   THEN ProtocolContentType(protocol) ELSE default_content_type
      config == Config(id, protocol, name, default, alternative_content_types)
      ordered == config.content_types
  IN  IF \E i \in 1..(Len(ordered) - 1) : ordered[i + 1] = ordered[i]
        THEN [raised |-> Exception("ServiceConfigurationError", "Duplicate content-type"),
              config |-> NoConfig]
        ELSE [raised |-> NoException, config |-> config]

\* ProtocolConfig.__init__: the config, or the exception of a duplicate.
\* `id' tells the config objects of one behaviour apart.
ProtocolConfig(id, protocol, name, default_content_type, alternative_content_types) ==
  LET default == IF default_content_type = None
                   THEN ProtocolContentType(protocol) ELSE default_content_type
      config == Config(id, protocol, name, default, alternative_content_types)
      ordered == sorted(config.content_types)
  IN  IF \E i \in 1..(Len(ordered) - 1) : ordered[i + 1] = ordered[i]
        THEN [raised |-> Exception("ServiceConfigurationError", "Duplicate content-type"),
              config |-> NoConfig]
        ELSE [raised |-> NoException, config |-> config]

\* The two dictionaries of a Protocols object.
Registry(by_name, by_content_type) ==
  [by_name |-> by_name, by_content_type |-> by_content_type]

\* dict.update((t, config) for t in config.content_types)
Update(by_content_type, config) ==
  LET types == {config.content_types[i] : i \in 1..Len(config.content_types)}
  IN  [t \in DOMAIN by_content_type \cup types |->
         IF t \in types THEN config ELSE by_content_type[t]]

\* dict[name] = config
Store(by_name, config) ==
  [n \in DOMAIN by_name \cup {config.name} |->
     IF n = config.name THEN config ELSE by_name[n]]

\* Protocols.add_protocol_config without the check of the content types.
add_protocol_config_any_type(self, config) ==
  IF config.name \in DOMAIN self.by_name
    THEN [registry |-> self,
          raised |-> Exception("ServiceConfigurationError", "Protocol name is already in use")]
    ELSE [registry |-> Registry(Store(self.by_name, config),
                                Update(self.by_content_type, config)),
          raised |-> NoException]

\* Protocols.add_protocol_config without the check of the name.
add_protocol_config_any_name(self, config) ==
  IF \E i \in 1..Len(config.content_types) :
       config.content_types[i] \in DOMAIN self.by_content_type
    THEN [registry |-> self,
          raised |-> Exception("ServiceConfigurationError", "Content type is already in use")]
    ELSE [registry |-> Registry(Store(self.by_name, config),
                                Update(self.by_content_type, config)),
          raised |-> NoException]

\* Protocols.add_protocol_config storing the name before it checks the
\* content types.
add_protocol_config_name_first(self, config) ==
  IF config.name \in DOMAIN self.by_name
    THEN [registry |-> self,
          raised |-> Exception("ServiceConfigurationError", "Protocol name is already in use")]
  ELSE IF \E i \in 1..Len(config.content_types) :
            config.content_types[i] \in DOMAIN self.by_content_type
    THEN [registry |-> Registry(Store(self.by_name, config), self.by_content_type),
          raised |-> Exception("ServiceConfigurationError", "Content type is already in use")]
  ELSE [registry |-> Registry(Store(self.by_name, config),
                              Update(self.by_content_type, config)),
        raised |-> NoException]

\* Protocols.add_protocol_config
add_protocol_config(self, config) ==
  IF config.name \in DOMAIN self.by_name
    THEN [registry |-> self,
          raised |-> Exception("ServiceConfigurationError", "Protocol name is already in use")]
  ELSE IF \E i \in 1..Len(config.content_types) :
            config.content_types[i] \in DOMAIN self.by_content_type
    THEN [registry |-> self,
          raised |-> Exception("ServiceConfigurationError", "Content type is already in use")]
  ELSE [registry |-> Registry(Store(self.by_name, config),
                              Update(self.by_content_type, config)),
        raised |-> NoException]

\* Protocols.lookup_by_name
lookup_by_name(self, name) ==
  IF name \in DOMAIN self.by_name
    THEN [raised |-> NoException, config |-> self.by_name[name]]
    ELSE [raised |-> Exception("KeyError", name), config |-> NoConfig]

\* Protocols.lookup_by_content_type
lookup_by_content_type(self, content_type) ==
  IF content_type \in DOMAIN self.by_content_type
    THEN [raised |-> NoException, config |-> self.by_content_type[content_type]]
    ELSE [raised |-> Exception("KeyError", content_type), config |-> NoConfig]

\* Protocols.names and Protocols.content_types, as sets.
names(self) == DOMAIN self.by_name

content_types(self) == DOMAIN self.by_content_type

(***************************************************************************)
(* The operations on one Protocols object.                                 *)
(***************************************************************************)
RegCall(op, key, raised, config) ==
  [op |-> op, key |-> key, raised |-> raised, config |-> config]

\* Protocols.__init__
InitProtocols ==
  /\ protocols = Registry(<<>>, <<>>)
  /\ made = 0
  /\ registered = {}
  /\ regLast = RegCall(None, None, NoException, NoConfig)

AlternateTuples(longest) ==
  UNION {[1..n -> RegistryContentTypes] : n \in 0..longest}

\* Protocols.add_protocol: construct a ProtocolConfig and register it.
add_protocol(protocol, name, default_content_type, alternative_content_types) ==
  /\ made < MaxAdds
  /\ made' = made + 1
  /\ LET new == ProtocolConfig(made + 1, protocol, name, default_content_type,
                               alternative_content_types)
         added == add_protocol_config(protocols, new.config)
     IN  IF new.raised # NoException
           THEN /\ regLast' = RegCall("ProtocolConfig", name, new.raised, NoConfig)
                /\ UNCHANGED <<protocols, registered>>
           ELSE /\ protocols' = added.registry
                /\ registered' = IF added.raised = NoException
                                   THEN registered \cup {new.config} ELSE registered
                /\ regLast' = RegCall("add_protocol_config", name, added.raised, new.config)
  /\ UNCHANGED otherThanProtocols

\* A caller looks a config up by name.
LookupByName(name) ==
  /\ LET found == lookup_by_name(protocols, name)
     IN  regLast' = RegCall("lookup_by_name", name, found.raised, found.config)
  /\ UNCHANGED <<protocols, made, registered, otherThanProtocols>>

\* A caller looks a config up by content type.
LookupByContentType(content_type) ==
  /\ LET found == lookup_by_content_type(protocols, content_type)
     IN  regLast' = RegCall("lookup_by_content_type", content_type, found.raised, found.config)
  /\ UNCHANGED <<protocols, made, registered, otherThanProtocols>>

NextProtocols ==
  \/ \E protocol \in ProtocolImplementations, name \in ProtocolNames, default_content_type \in RegistryContentTypes \cup {None}, alternative_content_types \in AlternateTuples(MaxRegisteredAlternates) :
       add_protocol(protocol, name, default_content_type, alternative_content_types)
  \/ \E name \in ProtocolNames : LookupByName(name)
  \/ \E content_type \in RegistryContentTypes : LookupByContentType(content_type)

(***************************************************************************)
(* One ProtocolConfig construction: the arguments are drawn at the start   *)
(* and the constructor is applied to them.                                 *)
(***************************************************************************)
NewArgs(protocol, name, default_content_type, alternative_content_types) ==
  [protocol |-> protocol, name |-> name,
   default_content_type |-> default_content_type,
   alternative_content_types |-> alternative_content_types]

NotConstructed == [raised |-> Exception("NotConstructed", None), config |-> NoConfig]

NothingToConstruct ==
  /\ newArgs = NewArgs("protojson", "json", None, <<>>)
  /\ newConfig = NotConstructed

InitProtocolConfig ==
  /\ newArgs \in {NewArgs(p, n, d, a) :
                    p \in ProtocolImplementations, n \in ProtocolNames,
                    d \in RegistryContentTypes \cup {None}, a \in AlternateTuples(MaxAlternates)}
  /\ newConfig = NotConstructed

\* ProtocolConfig(protocol, name, default_content_type, alternative_content_types)
Construct ==
  /\ newConfig = NotConstructed
  /\ newConfig' = ProtocolConfig(1, newArgs.protocol, newArgs.name,
                                 newArgs.default_content_type,
                                 newArgs.alternative_content_types)
  /\ UNCHANGED <<newArgs, otherThanProtocolConfig>>

NextProtocolConfig == Construct

(***************************************************************************)
(* remote.py: the meta-class _ServiceClass.                                *)
(*                                                                         *)
(* A class is known by its place in `classes'.  An attribute of a class    *)
(* body is a remote method (a function decorated by @method, which carries *)
(* a _RemoteMethodInfo: request type, response type and the function), a   *)
(* plain function, or a value that cannot be called.  `impl' is the class  *)
(* in whose body the function was written.                                 *)
(***************************************************************************)
Attribute_(kind, request_type, response_type, impl) ==
  [kind |-> kind, request_type |-> request_type,
   response_type |-> response_type, impl |-> impl]

\* remote.method(request_type, response_type)(function)
method(request_type, response_type, function) ==
  Attribute_("remote", request_type, response_type, function.impl)

Function(impl) == Attribute_("function", None, None, impl)

Value == Attribute_("value", None, None, 0)

\* remote.get_remote_method_info: whether the value is a remote method.
get_remote_method_info(value) == value.kind = "remote"

callable(value) == value.kind \in {"remote", "function"}

\* The names a class body may bind, and what it may bind them to.
MethodNames == {"m", "n"}

Declarations(impl) ==
  {method("Request", "Response", Function(impl)),
   method("SimpleRequest", "SimpleResponse", Function(impl)),
   Function(impl), Value}

\* What a class body may bind the second name to: fewer things, to keep the
\* number of class bodies small.
FewDeclarations(impl) ==
  {method("Request", "Response", Function(impl)), Function(impl)}

ClassBodies(impl) ==
  {body \in UNION {[names_ -> Declarations(impl)] : names_ \in SUBSET MethodNames} :
     "n" \in DOMAIN body => body["n"] \in FewDeclarations(impl)}

\* The body of class Service itself: no remote method.
ServiceBody ==
  [a \in {"all_remote_methods", "new_factory", "initialize_request_state",
          "definition_name", "request_state"} |->
     IF a = "request_state" THEN Value ELSE Function(1)]

\* dict(f); dict.update(g)
Overlay(f, g) ==
  [k \in DOMAIN f \cup DOMAIN g |-> IF k \in DOMAIN g THEN g[k] ELSE f[k]]

\* The loop over the bases in _ServiceClass.__new__: the remote methods of
\* the bases, a later base overwriting an earlier one.
RECURSIVE CollectBaseMethods(_, _, _)
CollectBaseMethods(known, base_methods, bases) ==
  IF bases = <<>> THEN base_methods
  ELSE CollectBaseMethods(known,
                          Overlay(base_methods, known[Head(bases)].remote_methods),
                          Tail(bases))

\* _ServiceClass.__new__ accepting a remote method as an override.
ServiceClass__new__redecorated(known, bases, dct) ==
  LET base_methods == CollectBaseMethods(known, <<>>, bases)
      overrides == DOMAIN dct \cap DOMAIN base_methods
  IN  IF \E a \in overrides : ~callable(dct[a])
        THEN [raised |-> Exception("ServiceDefinitionError", "Must override with a method"),
              dct |-> dct, base_methods |-> base_methods]
      ELSE [raised |-> NoException, dct |-> dct, base_methods |-> base_methods]

\* _ServiceClass.__new__ leaving the overrides as they were written.
ServiceClass__new__as_written(known, bases, dct) ==
  LET base_methods == CollectBaseMethods(known, <<>>, bases)
      overrides == DOMAIN dct \cap DOMAIN base_methods
  IN  IF \E a \in overrides : ~callable(dct[a]) \/ get_remote_method_info(dct[a])
        THEN [raised |-> Exception("ServiceDefinitionError", "Bad override"),
              dct |-> dct, base_methods |-> base_methods]
      ELSE [raised |-> NoException, dct |-> dct, base_methods |-> base_methods]

\* _ServiceClass.__new__: the class dictionary with every override of an
\* inherited remote method decorated as the base's method is, or the
\* exception of a bad override.
ServiceClass__new__(known, bases, dct) ==
  LET base_methods == CollectBaseMethods(known, <<>>, bases)
      overrides == DOMAIN dct \cap DOMAIN base_methods
  IN  IF \E a \in overrides : ~callable(dct[a])
        THEN [raised |-> Exception("ServiceDefinitionError", "Must override with a method"),
              dct |-> dct, base_methods |-> base_methods]
      ELSE IF \E a \in overrides : get_remote_method_info(dct[a])
        THEN [raised |-> Exception("ServiceDefinitionError", "Do not use remote decorator"),
              dct |-> dct, base_methods |-> base_methods]
      ELSE [raised |-> NoException,
            dct |-> [a \in DOMAIN dct |->
                       IF a \in overrides
                         THEN method(base_methods[a].request_type,
                                     base_methods[a].response_type, dct[a])
                         ELSE dct[a]],
            base_methods |-> base_methods]

\* The stub methods made by __create_async_methods and
\* __create_sync_methods: each carries the `remote' of its remote method.
StubMethods(remote_methods) ==
  [k \in DOMAIN remote_methods |->
     [request_type |-> remote_methods[k].request_type,
      response_type |-> remote_methods[k].response_type]]

\* The remote methods of a class body, by name.
OwnRemoteMethods(dct) ==
  [a \in {b \in DOMAIN dct : get_remote_method_info(dct[b])} |-> dct[a]]

Class(bases, declared, dct, remote_methods) ==
  [bases |-> bases, declared |-> declared, dct |-> dct,
   remote_methods |-> remote_methods,
   AsyncStub |-> StubMethods(remote_methods),
   Stub |-> StubMethods(StubMethods(remote_methods))]

\* _ServiceClass.__init__ forgetting the methods of the bases.
ServiceClass__init__own_only(bases, declared, dct, base_methods) ==
  Class(bases, declared, dct, OwnRemoteMethods(dct))

\* _ServiceClass.__init__: the registry of the class and its two stubs.
ServiceClass__init__(bases, declared, dct, base_methods) ==
  Class(bases, declared, dct, Overlay(base_methods, OwnRemoteMethods(dct)))

\* The class statement: _ServiceClass.__new__, then _ServiceClass.__init__.
ServiceClass(known, bases, declared) ==
  LET new == ServiceClass__new__(known, bases, declared)
  IN  [raised |-> new.raised,
       class |-> ServiceClass__init__(bases, declared, new.dct, new.base_methods)]

\* Service.all_remote_methods
all_remote_methods(cls) == cls.remote_methods

RECURSIVE Ancestors(_, _)
Ancestors(known, c) ==
  LET direct == {known[c].bases[i] : i \in 1..Len(known[c].bases)}
  IN  direct \cup UNION {Ancestors(known, b) : b \in direct}

\* The base tuples of a class statement: service classes, none of them
\* twice, none of them inherited by another of them.
BaseTuples(known) ==
  {bases \in UNION {[1..n -> 1..Len(known)] : n \in 1..MaxBases} :
     \A i, j \in 1..Len(bases) :
       i # j => bases[i] # bases[j] /\ bases[i] \notin Ancestors(known, bases[j])}

\* The names a class body declares as remote methods with a request and
\* response type pair that is not the pair of the remote method of that
\* name that some base has.
Redeclared(known, bases, declared) ==
  {a \in DOMAIN declared :
     /\ get_remote_method_info(declared[a])
     /\ \E i \in 1..Len(bases) :
          /\ a \in DOMAIN known[bases[i]].remote_methods
          /\ \/ known[bases[i]].remote_methods[a].request_type # declared[a].request_type
             \/ known[bases[i]].remote_methods[a].response_type # declared[a].response_type}

\* class Service(object), created by its meta-class.
InitService ==
  /\ classes = <<ServiceClass(<<>>, <<>>, ServiceBody).class>>
  /\ svcLast = [op |-> None, raised |-> NoException, redeclared |-> {}]

\* A class statement with service classes as bases.
DefineService(bases, declared) ==
  /\ Len(classes) < 1 + MaxClasses
  /\ LET defined == ServiceClass(classes, bases, declared)
     IN  /\ classes' = IF defined.raised = NoException
                         THEN Append(classes, defined.class) ELSE classes
         /\ svcLast' = [op |-> "class", raised |-> defined.raised,
                        redeclared |-> Redeclared(classes, bases, declared)]
  /\ UNCHANGED otherThanService

NextService ==
  \E bases \in BaseTuples(classes), declared \in ClassBodies(Len(classes) + 1) :
    DefineService(bases, declared)

(***************************************************************************)
(* remote.py: invoke_remote_method, the function @method puts in the place *)
(* of the user's method.                                                   *)
(*                                                                         *)
(* A Python object is known by its class.  Sub* are message classes that   *)
(* derive from the class of the same name.                                 *)
(***************************************************************************)
Object(class) == [class |-> class]

MessageClasses ==
  {"Request", "Response", "SimpleRequest", "SimpleResponse", "SubRequest", "SubResponse"}

BaseClass(class) ==
  CASE class = "SubRequest" -> "Request"
    [] class = "SubResponse" -> "Response"
    [] OTHER -> "Message"

\* What a caller may pass and a method body may return: messages, the
\* string 'wrong' and None.
Objects == {Object(c) : c \in MessageClasses \cup {"str", "NoneType"}}

isinstance(object, class) ==
  object.class = class \/ BaseClass(object.class) = class

NoObject == Object("nothing")

Invocation(raised, returned, ran) ==
  [raised |-> raised, returned |-> returned, ran |-> ran]

\* invoke_remote_method without its check of the request.
invoke_remote_method_any_request(remote_method_info, request, response) ==
  IF ~isinstance(response, remote_method_info.response_type)
    THEN Invocation(Exception("InvalidResponseError", "expected response type"), NoObject, 1)
  ELSE Invocation(NoException, response, 1)

\* invoke_remote_method(service_instance, request), where `response' is
\* what the user's method body returns if it is run; `ran' is how many
\* times it was run.
invoke_remote_method(remote_method_info, request, response) ==
  IF ~isinstance(request, remote_method_info.request_type)
    THEN Invocation(Exception("InvalidRequestError", "expected request type"), NoObject, 0)
  ELSE IF ~isinstance(response, remote_method_info.response_type)
    THEN Invocation(Exception("InvalidResponseError", "expected response type"), NoObject, 1)
  ELSE Invocation(NoException, response, 1)

\* The remote methods a service may declare.
RemoteMethods == {d \in Declarations(1) : get_remote_method_info(d)}

NoInvocation ==
  [op |-> None, request |-> NoObject, response |-> NoObject,
   raised |-> NoException, returned |-> NoObject]

InvocationIdle ==
  /\ remote_method = method("SimpleRequest", "SimpleResponse", Function(1))
  /\ bodyRuns = 0
  /\ invoked = 0
  /\ invLast = NoInvocation

\* A service class with one remote method, and an instance of it.
InitInvocation ==
  /\ remote_method \in RemoteMethods
  /\ bodyRuns = 0
  /\ invoked = 0
  /\ invLast = NoInvocation

\* service.remote_method(request)
Invoke(request, response) ==
  /\ invoked < MaxInvocations
  /\ LET call == invoke_remote_method(remote_method, request, response)
     IN  /\ bodyRuns' = bodyRuns + call.ran
         /\ invLast' = [op |-> "invoke", request |-> request, response |-> response,
                        raised |-> call.raised, returned |-> call.returned]
  /\ invoked' = invoked + 1
  /\ UNCHANGED <<remote_method, otherThanInvocation>>

NextInvocation == \E request, response \in Objects : Invoke(request, response)

(***************************************************************************)
(* remote.py: the methods of the stub classes AsyncStub and Stub.          *)
(*                                                                         *)
(* A request message has one required field, `value'.  The keyword         *)
(* arguments of a call are a function from field names to values.          *)
(***************************************************************************)
Message(class, value) == [class |-> class, value |-> value]

Fields == {"value"}

Kwargs == UNION {[names_ -> {"request"}] : names_ \in SUBSET Fields}

\* The positional arguments of a call, after self: none, a request (of
\* the declared type or not, initialized or not), or one argument more.
Args(remote_info) ==
  LET given == {Message(remote_info.request_type, "request"),
                Message(remote_info.request_type, None),
                Message(remote_info.response_type, "request")}
  IN  {<<>>} \cup {<<r>> : r \in given}
        \cup {<<Message(remote_info.request_type, "request"), "extra">>}

\* remote.request_type() followed by setattr(request, name, value) for
\* each keyword argument.
BuildRequest(remote_info, kwargs) ==
  [f \in {"class"} \cup Fields |->
     IF f = "class" THEN remote_info.request_type
     ELSE IF f \in DOMAIN kwargs THEN kwargs[f] ELSE None]

\* Transport.send_rpc(remote_info, request): the Rpc of _start_rpc.
Transport_send_rpc(id, request) ==
  IF ~check_initialized(request)
    THEN [raised |-> Exception("ValidationError", "value is required"), rpc |-> NoRpc]
    ELSE [raised |-> NoException, rpc |-> Rpc(id, request)]

SendRpc(remote_info, request, rpc_) ==
  [request_type |-> remote_info.request_type,
   response_type |-> remote_info.response_type, request |-> request, rpc |-> rpc_]

StubResult(sent_, raised, returned) ==
  [sent |-> sent_, raised |-> raised, returned |-> returned]

\* async_method taking both a request and keyword arguments.
async_method_both(sent_, remote_info, args, kwargs) ==
  IF Len(args) + 1 > 2
    THEN StubResult(sent_, Exception("TypeError", "takes at most 2 positional arguments"), None)
  ELSE LET request == IF args = <<>> THEN BuildRequest(remote_info, kwargs) ELSE args[1]
           send == Transport_send_rpc(Len(sent_) + 1, request)
       IN  StubResult(Append(sent_, SendRpc(remote_info, request, send.rpc)),
                      send.raised, send.rpc)

\* async_method(self, *args, **kwargs) under util.positional(2), on a stub
\* whose transport has seen the calls sent_.
async_method(sent_, remote_info, args, kwargs) ==
  IF Len(args) + 1 > 2
    THEN StubResult(sent_, Exception("TypeError", "takes at most 2 positional arguments"), None)
  ELSE IF args # <<>> /\ DOMAIN kwargs # {}
    THEN StubResult(sent_, Exception("TypeError", "May not provide both args and kwargs"), None)
  ELSE LET request == IF args = <<>> THEN BuildRequest(remote_info, kwargs) ELSE args[1]
           send == Transport_send_rpc(Len(sent_) + 1, request)
       IN  StubResult(Append(sent_, SendRpc(remote_info, request, send.rpc)),
                      send.raised, send.rpc)

\* What class transport.Rpc defines.
RpcAttributes ==
  {"request", "response", "state", "error_message", "error_name", "wait",
   "set_response", "set_status"}

\* sync_method(self, *args, **kwargs): async_method(...).get_response(),
\* where the Rpc of the transport resolves to `response'.
sync_method(sent_, remote_info, args, kwargs, response) ==
  LET async == async_method(sent_, remote_info, args, kwargs)
  IN  IF async.raised # NoException THEN async
      ELSE IF "get_response" \notin RpcAttributes
        THEN StubResult(async.sent, Exception("AttributeError", "get_response"), None)
      ELSE StubResult(async.sent, NoException, response)

StubCall(op, args, kwargs, response, raised, returned) ==
  [op |-> op, args |-> args, kwargs |-> kwargs, response |-> response,
   raised |-> raised, returned |-> returned]

NoStubCalls ==
  /\ sent = <<>>
  /\ stubCalls = 0
  /\ stubLast = StubCall(None, <<>>, <<>>, None, NoException, None)

StubIdle ==
  /\ remote = method("SimpleRequest", "SimpleResponse", Function(1))
  /\ NoStubCalls

\* A service with one remote method; its Stub and AsyncStub over a
\* transport.
InitStub ==
  /\ remote \in RemoteMethods
  /\ NoStubCalls

\* stub.async.remote_method(*args, **kwargs)
AsyncCall(args, kwargs) ==
  /\ stubCalls < MaxStubCalls
  /\ stubCalls' = stubCalls + 1
  /\ LET call == async_method(sent, remote, args, kwargs)
     IN  /\ sent' = call.sent
         /\ stubLast' = StubCall("async", args, kwargs, None, call.raised, call.returned)
  /\ UNCHANGED <<remote, otherThanStub>>

\* stub.remote_method(*args, **kwargs)
SyncCall(args, kwargs, response) ==
  /\ stubCalls < MaxStubCalls
  /\ stubCalls' = stubCalls + 1
  /\ LET call == sync_method(sent, remote, args, kwargs, response)
     IN  /\ sent' = call.sent
         /\ stubLast' = StubCall("sync", args, kwargs, response, call.raised, call.returned)
  /\ UNCHANGED <<remote, otherThanStub>>

NextStub ==
  \/ \E args \in Args(remote), kwargs \in Kwargs : AsyncCall(args, kwargs)
  \/ \E args \in Args(remote), kwargs \in Kwargs, response \in ResponseMessages :
       SyncCall(args, kwargs, response)

(***************************************************************************)
(* experimental/wsgi_service.py and experimental/wsgi_handlers.py: the two  *)
(* server applications.                                                    *)
(*                                                                         *)
(* A request is what the application reads of its WSGI environ, and what   *)
(* the body of the remote method does when it is run.  The service has one *)
(* remote method, method1, and one attribute that is no remote method,     *)
(* helper; the method name of a request is None when its path is the       *)
(* service path with no method part, which _METHOD_PATTERN lets match.     *)
(* The protocols of the server know application/json only.                 *)
(***************************************************************************)
Environ(route, method_name, content_type, body, outcome) ==
  [route |-> route, method_name |-> method_name, content_type |-> content_type,
   body |-> body, outcome |-> outcome]

Environs ==
  {Environ(route, method_name, content_type, body, outcome) :
     route \in {"POST", "GET", "other path"},
     method_name \in {"method1", "helper", "not_found", None},
     content_type \in {"application/json", "text/plain", None},
     body \in {"message", "junk"},
     outcome \in {"response", "ApplicationError"}}

NoEnviron == Environ(None, None, None, None, None)

Served(status, trace) == [status |-> status, trace |-> trace]

\* service_app_application never calling initialize_request_state.
service_app_application_no_hook(defines_hook, environ) ==
  IF environ.route = "other path" THEN Served("404", <<>>)
  ELSE IF environ.route # "POST" THEN Served("405", <<>>)
  ELSE IF environ.content_type = None THEN Served("400", <<>>)
  ELSE IF environ.content_type # "application/json" THEN Served("415", <<>>)
  ELSE IF environ.method_name = None THEN Served("raised", <<"__init__">>)
  ELSE IF environ.method_name = "not_found" THEN Served("400", <<"__init__">>)
  ELSE IF environ.method_name = "helper" THEN Served("400", <<"__init__">>)
  ELSE IF environ.body = "junk" THEN Served("400", <<"__init__">>)
  ELSE IF environ.outcome = "ApplicationError" THEN Served("400", <<"__init__", "method">>)
  ELSE Served("200", <<"__init__", "method">>)

\* wsgi_service.service_app: match_path, then environ_equals on
\* REQUEST_METHOD, then service_app_application; getattr with the name None
\* raises TypeError, which nothing catches.
service_app_application(defines_hook, environ) ==
  IF environ.route = "other path" THEN Served("404", <<>>)
  ELSE IF environ.route # "POST" THEN Served("405", <<>>)
  ELSE IF environ.content_type = None THEN Served("400", <<>>)
  ELSE IF environ.content_type # "application/json" THEN Served("415", <<>>)
  ELSE LET instance == IF defines_hook
                         THEN <<"__init__", "initialize_request_state">>
                         ELSE <<"__init__">>
       IN  IF environ.method_name = None THEN Served("raised", instance)
           ELSE IF environ.method_name = "not_found" THEN Served("400", instance)
           ELSE IF environ.method_name = "helper" THEN Served("400", instance)
           ELSE IF environ.body = "junk" THEN Served("400", instance)
           ELSE IF environ.outcome = "ApplicationError"
             THEN Served("400", Append(instance, "method"))
           ELSE Served("200", Append(instance, "method"))

\* The content types the protocols of the server have registered.
RegisteredContentTypes == {"application/json"}

\* One call of start_response: the status and the two headers.
StartResponse(status, content_length, content_type) ==
  [status |-> status, content_length |-> content_length, content_type |-> content_type]

\* What one call of the application came to: the calls of start_response
\* in order, the calls made on the service instance, and the exception
\* that left the application (None when it returned).
Answer(start_response, trace, raised) ==
  [start_response |-> start_response, trace |-> trace, raised |-> raised]

\* http_error(status) inside run_application
http_error(environ, status) ==
  StartResponse(status, "0",
                IF environ.content_type # None
                   /\ environ.content_type \in RegisteredContentTypes
                  THEN environ.content_type
                  ELSE "text/html")

\* wsgi_handlers.ServiceApp.run_application, iterated to its end as a WSGI
\* server does.  getattr(service_instance, None, None) raises TypeError; an
\* exception of the decoder or of the method leaves the application too.
ServiceApp_run_application(environ) ==
  IF environ.route = "other path"
    THEN Answer(<<http_error(environ, "404")>>, <<>>, None)
  ELSE IF environ.route # "POST"
    THEN Answer(<<http_error(environ, "404")>>, <<>>, None)
  ELSE IF environ.method_name = None
    THEN Answer(<<>>, <<"__init__">>, "TypeError")
  ELSE IF environ.method_name # "method1"
    THEN Answer(<<http_error(environ, "400")>>, <<"__init__">>, None)
  ELSE IF environ.content_type = None
    THEN Answer(<<http_error(environ, "400")>>, <<"__init__">>, None)
  ELSE IF environ.content_type \notin RegisteredContentTypes
    THEN Answer(<<http_error(environ, "400")>>, <<"__init__">>, None)
  ELSE IF environ.body = "junk"
    THEN Answer(<<>>, <<"__init__">>, "DecodeError")
  ELSE IF environ.outcome = "ApplicationError"
    THEN Answer(<<>>, <<"__init__", "method">>, "ApplicationError")
  ELSE Answer(<<StartResponse("200 OK", "len(response_body)", environ.content_type)>>,
              <<"__init__", "method">>, None)

\* The HTTP status code of an answer, "raised" when an exception left the
\* application.
StatusCode(answer) ==
  IF answer.raised # None THEN "raised"
  ELSE IF answer.start_response[1].status = "200 OK" THEN "200"
  ELSE answer.start_response[1].status

\* wsgi_handlers.ServiceApp.run_application, as the status and the calls
\* on the service instance.
run_application(defines_hook, environ) ==
  LET answer == ServiceApp_run_application(environ)
  IN  Served(StatusCode(answer), answer.trace)

Apps == {"service_app", "ServiceApp"}

NoRequests ==
  /\ served = 0
  /\ srvLast = [environ |-> NoEnviron, status |-> None, trace |-> <<>>]

ServerIdle ==
  /\ app = "service_app"
  /\ service = [initialize_request_state |-> TRUE]
  /\ NoRequests

\* An application is made for a service class or factory.
InitServer ==
  /\ app \in Apps
  /\ service \in [initialize_request_state : BOOLEAN]
  /\ NoRequests

\* The application is called with a request.
Serve(environ) ==
  /\ served < MaxRequests
  /\ served' = served + 1
  /\ LET result == IF app = "service_app"
                     THEN service_app_application(service.initialize_request_state, environ)
                     ELSE run_application(service.initialize_request_state, environ)
     IN  srvLast' = [environ |-> environ, status |-> result.status, trace |-> result.trace]
  /\ UNCHANGED <<app, service, otherThanServer>>

NextServer == \E environ \in Environs : Serve(environ)

(***************************************************************************)
(* descriptor.py: describe_enum, describe_field and describe_message.      *)
(*                                                                         *)
(* A field definition has its class (kind), the attributes of              *)
(* messages.Field and, for an EnumField, the name of its enum type.  An    *)
(* attribute of a descriptor that was never assigned is None, or Unset     *)
(* when it is a list.  The default of a field is a record with a place for *)
(* each type of value.                                                     *)
(***************************************************************************)
Unset == [assigned |-> FALSE, value |-> <<>>]

Assigned(value) == [assigned |-> TRUE, value |-> value]

NoDefault == [is_none |-> TRUE, integer |-> 0, string |-> "", boolean |-> FALSE]

IntegerDefault(n) == [NoDefault EXCEPT !.is_none = FALSE, !.integer = n]

StringDefault(text) == [NoDefault EXCEPT !.is_none = FALSE, !.string = text]

BooleanDefault(b) == [NoDefault EXCEPT !.is_none = FALSE, !.boolean = b]

\* An Enum value as a default, known by its number.
EnumDefault(number) == [NoDefault EXCEPT !.is_none = FALSE, !.integer = number]

FieldDefinition(name, number, kind, type, default, required, repeated) ==
  [name |-> name, number |-> number, kind |-> kind, type |-> type,
   default |-> default, required |-> required, repeated |-> repeated]

\* The variant of each field class.
Variant(kind) ==
  CASE kind = "IntegerField" -> "INT64"
    [] kind = "BooleanField" -> "BOOL"
    [] kind = "StringField" -> "STRING"
    [] kind = "EnumField" -> "ENUM"

\* An Enum class: its name and its values in declaration order.
EnumDefinition(name, values) == [name |-> name, values |-> values]

EnumValue(name, number) == [name |-> name, number |-> number]

EnumDefinitions ==
  {EnumDefinition("NestedEnum", <<>>),
   EnumDefinition("Colors", <<EnumValue("RED", 1), EnumValue("GREEN", 2)>>),
   EnumDefinition("Colors", <<EnumValue("GREEN", 2), EnumValue("RED", 1)>>)}

\* The map quoting the default of a StringField.
DEFAULT_TO_STRING_MAP_quoting(kind, value) ==
  CASE kind = "IntegerField" -> ToString(value.integer)
    [] kind = "BooleanField" -> IF value.boolean THEN "true" ELSE "false"
    [] kind = "StringField" -> "'" \o value.string \o "'"
    [] kind = "EnumField" -> ToString(value.integer)

\* _DEFAULT_TO_STRING_MAP
DEFAULT_TO_STRING_MAP(kind, value) ==
  CASE kind = "IntegerField" -> ToString(value.integer)
    [] kind = "BooleanField" -> IF value.boolean THEN "true" ELSE "false"
    [] kind = "StringField" -> value.string
    [] kind = "EnumField" -> ToString(value.integer)

describe_enum_value(enum_value) ==
  [name |-> enum_value.name, number |-> enum_value.number]

\* describe_enum; Enum.numbers() gives the numbers in declaration order.
describe_enum(enum_definition) ==
  LET values == [i \in 1..Len(enum_definition.values) |->
                   describe_enum_value(enum_definition.values[i])]
  IN  [name |-> enum_definition.name,
       values |-> IF values # <<>> THEN Assigned(values) ELSE Unset]

Label(field_definition) ==
  IF field_definition.repeated THEN "REPEATED"
  ELSE IF field_definition.required THEN "REQUIRED"
  ELSE "OPTIONAL"

describe_field(field_definition) ==
  [name |-> field_definition.name,
   number |-> field_definition.number,
   variant |-> Variant(field_definition.kind),
   type_name |-> IF field_definition.kind = "EnumField"
                   THEN field_definition.type ELSE None,
   default_value |-> IF ~field_definition.default.is_none
                       THEN DEFAULT_TO_STRING_MAP(field_definition.kind,
                                                  field_definition.default)
                       ELSE None,
   label |-> Label(field_definition)]

\* sorted(fields, key=lambda v: v.number): a stable sort.
RECURSIVE InsertByNumber(_, _)
InsertByNumber(field, fields) ==
  IF fields = <<>> THEN <<field>>
  ELSE IF field.number < Head(fields).number THEN <<field>> \o fields
  ELSE <<Head(fields)>> \o InsertByNumber(field, Tail(fields))

RECURSIVE sorted_by_number(_)
sorted_by_number(fields) ==
  IF fields = <<>> THEN <<>>
  ELSE InsertByNumber(fields[Len(fields)],
                      sorted_by_number(SubSeq(fields, 1, Len(fields) - 1)))

\* A message class: its name, its fields in declaration order and
\* __enums__, its nested Enum classes, Unset when it has no such attribute.
MessageDefinition(name, fields, enums) ==
  [name |-> name, fields |-> fields, enums |-> enums]

\* Message.all_fields(): the fields in the order `order', which is any.
all_fields(message_definition, order) ==
  [i \in 1..Len(message_definition.fields) |-> message_definition.fields[order[i]]]

Orders(n) == {order \in [1..n -> 1..n] : \A i, j \in 1..n : i # j => order[i] # order[j]}

\* describe_message leaving the fields in the order of all_fields().
describe_message_unsorted(message_definition, order) ==
  LET fields == all_fields(message_definition, order)
      described_fields == [i \in 1..Len(fields) |-> describe_field(fields[i])]
  IN  [name |-> message_definition.name,
       fields |-> IF fields # <<>> THEN Assigned(described_fields) ELSE Unset,
       enums |-> IF ~message_definition.enums.assigned THEN Unset
                 ELSE Assigned([i \in 1..Len(message_definition.enums.value) |->
                                  describe_enum(message_definition.enums.value[i])])]

\* describe_message
describe_message(message_definition, order) ==
  LET fields == sorted_by_number(all_fields(message_definition, order))
      described_fields == [i \in 1..Len(fields) |-> describe_field(fields[i])]
  IN  [name |-> message_definition.name,
       fields |-> IF fields # <<>> THEN Assigned(described_fields) ELSE Unset,
       enums |-> IF ~message_definition.enums.assigned THEN Unset
                 ELSE Assigned([i \in 1..Len(message_definition.enums.value) |->
                                  describe_enum(message_definition.enums.value[i])])]

(***************************************************************************)
(* The definition of classes from descriptors (define_enum, define_field   *)
(* and define_message), and the message classes the model describes.       *)
(***************************************************************************)
IntegerDefaults == {0, 7}

\* The default of a field from its text in a descriptor.
FromString(kind, text) ==
  CASE kind = "IntegerField" ->
         IntegerDefault(CHOOSE n \in IntegerDefaults : ToString(n) = text)
    [] kind = "BooleanField" -> BooleanDefault(text = "true")
    [] kind = "StringField" -> StringDefault(text)
    [] kind = "EnumField" -> EnumDefault(CHOOSE n \in 1..2 : ToString(n) = text)

FieldClass(variant) ==
  CASE variant = "INT64" -> "IntegerField"
    [] variant = "BOOL" -> "BooleanField"
    [] variant = "STRING" -> "StringField"
    [] variant = "ENUM" -> "EnumField"

define_enum(enum_descriptor) ==
  EnumDefinition(enum_descriptor.name,
                 [i \in 1..Len(enum_descriptor.values.value) |->
                    EnumValue(enum_descriptor.values.value[i].name,
                              enum_descriptor.values.value[i].number)])

\* define_field leaves the name of the field unset.
define_field(field_descriptor) ==
  FieldDefinition(None, field_descriptor.number, FieldClass(field_descriptor.variant),
                  field_descriptor.type_name,
                  IF field_descriptor.default_value = None THEN NoDefault
                  ELSE FromString(FieldClass(field_descriptor.variant),
                                  field_descriptor.default_value),
                  field_descriptor.label = "REQUIRED",
                  field_descriptor.label = "REPEATED")

\* define_message binds each field to the name of its descriptor.
define_message(message_descriptor) ==
  MessageDefinition(
    message_descriptor.name,
    [i \in 1..Len(message_descriptor.fields.value) |->
       [define_field(message_descriptor.fields.value[i])
          EXCEPT !.name = message_descriptor.fields.value[i].name]],
    IF message_descriptor.enums.value = <<>> THEN Unset
    ELSE Assigned([i \in 1..Len(message_descriptor.enums.value) |->
                     define_enum(message_descriptor.enums.value[i])]))

FieldNumbers == {1, 2, 3}

FieldName(number) == "field" \o ToString(number)

\* The fields a message class may declare under a number.
FieldDefinitions(number) ==
  {FieldDefinition(FieldName(number), number, "IntegerField", None, NoDefault, FALSE, FALSE),
   FieldDefinition(FieldName(number), number, "IntegerField", None, NoDefault, TRUE, FALSE),
   FieldDefinition(FieldName(number), number, "IntegerField", None, IntegerDefault(7), FALSE, FALSE),
   FieldDefinition(FieldName(number), number, "StringField", None, NoDefault, FALSE, TRUE),
   FieldDefinition(FieldName(number), number, "StringField", None, StringDefault("a"), FALSE, FALSE),
   FieldDefinition(FieldName(number), number, "BooleanField", None, BooleanDefault(FALSE), FALSE, FALSE),
   FieldDefinition(FieldName(number), number, "EnumField", "Colors", EnumDefault(2), FALSE, FALSE),
   FieldDefinition(FieldName(number), number, "EnumField", "Colors", NoDefault, FALSE, TRUE)}

\* The field lists of a message class: no number twice.
FieldLists ==
  {fields \in UNION {[1..n -> UNION {FieldDefinitions(k) : k \in FieldNumbers}] :
                       n \in 0..MaxFields} :
     \A i, j \in 1..Len(fields) : i # j => fields[i].number # fields[j].number}

MessageDefinitions ==
  {MessageDefinition("AMessage", fields, enums) :
     fields \in FieldLists,
     enums \in {Unset} \cup {Assigned(<<e>>) : e \in EnumDefinitions}}

NoDescriptor == [name |-> None, fields |-> Unset, enums |-> Unset]

NoDefinition == MessageDefinition(None, <<>>, Unset)

Undescribed ==
  /\ described = NoDescriptor
  /\ materialized = NoDefinition
  /\ redescribed = NoDescriptor

DescriptorIdle ==
  /\ definition = MessageDefinition("AMessage", <<>>, Unset)
  /\ Undescribed

\* A message class has been declared.
InitDescriptor ==
  /\ definition \in MessageDefinitions
  /\ Undescribed

\* descriptor.describe_message(AMessage)
Describe(order) ==
  /\ described = NoDescriptor
  /\ described' = describe_message(definition, order)
  /\ UNCHANGED <<definition, materialized, redescribed, otherThanDescriptor>>

\* define_message(message_descriptor, module)
Define ==
  /\ described # NoDescriptor
  /\ materialized = NoDefinition
  /\ materialized' = define_message(described)
  /\ UNCHANGED <<definition, described, redescribed, otherThanDescriptor>>

\* descriptor.describe_message(message_class)
DescribeAgain(order) ==
  /\ materialized # NoDefinition
  /\ redescribed = NoDescriptor
  /\ redescribed' = describe_message(materialized, order)
  /\ UNCHANGED <<definition, described, materialized, otherThanDescriptor>>

NextDescriptor ==
  \/ \E order \in Orders(Len(definition.fields)) : Describe(order)
  \/ Define
  \/ \E order \in Orders(Len(definition.fields)) : DescribeAgain(order)

(***************************************************************************)
(* Importing file descriptors into a registry of modules (import_file and  *)
(* import_file_set of the stub module, as stub_test.ModuleTest uses them). *)
(*   modules:     the registry, from qualified name to the module          *)
(*                registered under it (0: none);                           *)
(*   units:       the modules that exist, each with its name, its          *)
(*                sub-module attributes and the definitions installed;     *)
(*   preexisting: the registry as it was before the first import;          *)
(*   imported:    the file descriptors imported so far;                    *)
(*   impLast:     the latest import, how it ended and whether every file   *)
(*                of it had been imported before.                          *)
(***************************************************************************)
\* How many file descriptors one FileSet holds at most.
MaxFiles == 2

PathNames == {"standalone", "root", "nested"}

\* The packages of stub_test.ModuleTest.
Packages ==
  {<<"standalone">>, <<"root", "nested">>, <<"root", "nested", "nested">>}

\* The qualified names of the levels of a package: 'root.nested' has the
\* levels 'root' and 'root.nested'.
LevelsOf(package) == {SubSeq(package, 1, i) : i \in 1..Len(package)}

Levels == UNION {LevelsOf(p) : p \in Packages}

Parent(level) == SubSeq(level, 1, Len(level) - 1)

\* new.module(name)
Module(name) ==
  [name |-> name, attributes |-> [n \in PathNames |-> 0], definitions |-> {}]

\* descriptor.FileDescriptor with its package (<<>>: no package) and the
\* names of the enums, messages and services it declares.
FileDescriptor(package, definitions) ==
  [package |-> package, definitions |-> definitions]

\* The definitions of MakeFileDescriptor(package).
MyDefinitions == {"MyEnum", "MyMessage", "MyService"}

\* MakeFileDescriptor(package) for each package and for none, and a second
\* file of package 'root.nested' with another message.
FileDescriptors ==
  {FileDescriptor(p, MyDefinitions) : p \in Packages \cup {<<>>}}
    \cup {FileDescriptor(<<"root", "nested">>, {"OtherMessage"})}

FileSets ==
  UNION {[1..n -> FileDescriptors] : n \in 1..MaxFiles}

Registry_(modules_, units_) == [modules |-> modules_, units |-> units_]

Imported(registry, raised) == [registry |-> registry, raised |-> raised]

\* define_file(file_descriptor, module): every definition of the file
\* becomes an attribute of the module; what the module held stays.
define_file(units_, unit, file_descriptor) ==
  [units_ EXCEPT ![unit].definitions = @ \cup file_descriptor.definitions]

\* One level of the package, with a new module whatever is registered.
import_level_replacing(registry, level) ==
  LET unit == Len(registry.units) + 1
      units1 == Append(registry.units, Module(level))
      units2 == IF Len(level) = 1 THEN units1
                ELSE [units1 EXCEPT ![registry.modules[Parent(level)]]
                                       .attributes[level[Len(level)]] = unit]
  IN  Registry_([registry.modules EXCEPT ![level] = unit], units2)

\* One level of the package: the module registered under the qualified
\* name is taken, and a new one is created and registered when there is
\* none; the module becomes the attribute of its parent.
import_level(registry, level) ==
  LET found == registry.modules[level]
      unit == IF found # 0 THEN found ELSE Len(registry.units) + 1
      units1 == IF found # 0 THEN registry.units
                ELSE Append(registry.units, Module(level))
      units2 == IF Len(level) = 1 THEN units1
                ELSE [units1 EXCEPT ![registry.modules[Parent(level)]]
                                       .attributes[level[Len(level)]] = unit]
  IN  Registry_([registry.modules EXCEPT ![level] = unit], units2)

RECURSIVE import_levels(_, _, _)
import_levels(registry, package, i) ==
  IF i > Len(package) THEN registry
  ELSE import_levels(import_level(registry, SubSeq(package, 1, i)), package, i + 1)

\* import_file(file_descriptor, modules)
import_file(registry, file_descriptor) ==
  IF file_descriptor.package = <<>>
    THEN Imported(registry,
                  Exception("ValueError", "File descriptor must have package name."))
    ELSE LET linked == import_levels(registry, file_descriptor.package, 1)
             unit == linked.modules[file_descriptor.package]
         IN  Imported(Registry_(linked.modules,
                                define_file(linked.units, unit, file_descriptor)),
                      NoException)

\* import_file_set(file_set, modules): every file of the set in the order
\* given; an exception of one import ends the call.
RECURSIVE import_files(_, _, _)
import_files(registry, files, i) ==
  IF i > Len(files) THEN Imported(registry, NoException)
  ELSE LET one == import_file(registry, files[i])
       IN  IF one.raised # NoException THEN one
           ELSE import_files(one.registry, files, i + 1)

import_file_set(registry, files) == import_files(registry, files, 1)

NoModules == [level \in Levels |-> 0]

\* The registries an import starts from: an empty one, one with module
\* 'standalone' (testImportFile_InToExisting), one with module 'root', and
\* one with 'root' and its attribute 'root.nested' (testImportFileSet).
Registries ==
  { Registry_(NoModules, <<>>),
    Registry_([NoModules EXCEPT ![<<"standalone">>] = 1], <<Module(<<"standalone">>)>>),
    Registry_([NoModules EXCEPT ![<<"root">>] = 1], <<Module(<<"root">>)>>),
    Registry_([NoModules EXCEPT ![<<"root">>] = 1, ![<<"root", "nested">>] = 2],
              << [Module(<<"root">>) EXCEPT !.attributes["nested"] = 2],
                 Module(<<"root", "nested">>) >>) }

NoImport == [op |-> None, raised |-> NoException, again |-> FALSE]

ImportIdle ==
  /\ modules = NoModules
  /\ units = <<>>
  /\ preexisting = NoModules
  /\ imported = {}
  /\ impLast = NoImport

InitImport ==
  /\ \E registry \in Registries :
       /\ modules = registry.modules
       /\ units = registry.units
       /\ preexisting = registry.modules
  /\ imported = {}
  /\ impLast = NoImport

\* The files of a set that were imported before the call ended.
RECURSIVE ImportedOf(_, _, _)
ImportedOf(registry, files, i) ==
  IF i > Len(files) \/ import_file(registry, files[i]).raised # NoException THEN {}
  ELSE {files[i]} \cup ImportedOf(import_file(registry, files[i]).registry, files, i + 1)

\* stub.import_file(file_descriptor, modules)
ImportFile(file_descriptor) ==
  LET result == import_file(Registry_(modules, units), file_descriptor)
  IN  /\ modules' = result.registry.modules
      /\ units' = result.registry.units
      /\ imported' = imported \cup ImportedOf(Registry_(modules, units), <<file_descriptor>>, 1)
      /\ impLast' = [op |-> "import_file", raised |-> result.raised,
                      again |-> file_descriptor \in imported]
      /\ UNCHANGED <<preexisting, otherThanImport>>

\* stub.import_file_set(file_set, modules)
ImportFileSet(files) ==
  LET result == import_file_set(Registry_(modules, units), files)
  IN  /\ modules' = result.registry.modules
      /\ units' = result.registry.units
      /\ imported' = imported \cup ImportedOf(Registry_(modules, units), files, 1)
      /\ impLast' = [op |-> "import_file_set", raised |-> result.raised,
                      again |-> \A i \in 1..Len(files) : files[i] \in imported]
      /\ UNCHANGED <<preexisting, otherThanImport>>

NextImport ==
  \/ \E file_descriptor \in FileDescriptors : ImportFile(file_descriptor)
  \/ \E files \in FileSets : ImportFileSet(files)

(***************************************************************************)
(* Service.definition_name (remote.py).                                    *)
(*   sys_modules:      what sys.modules holds for module '__main__', in    *)
(*                     which the program declares its service classes;     *)
(*   definition_names: for each service class, the attribute               *)
(*                     _Service__definition_name in its own __dict__       *)
(*                     (None: no such attribute);                          *)
(*   dnLast:           the class of the latest definition_name() call and  *)
(*                     what the call returned.                             *)
(***************************************************************************)
\* The service classes: remote.Service, and in module '__main__'
\*   class TheService(remote.Service), class SubService(TheService) and
\*   class OtherService(remote.Service).
ServiceClasses ==
  << [name |-> "Service", module |-> "protorpc.remote", base |-> 0],
     [name |-> "TheService", module |-> "__main__", base |-> 1],
     [name |-> "SubService", module |-> "__main__", base |-> 2],
     [name |-> "OtherService", module |-> "__main__", base |-> 1] >>

\* sys.modules.get('__main__'): a module with a `package' attribute, a
\* module without one, or no module (testDefinitionNameWithNoModule).
MainModules ==
  { [found |-> TRUE, package |-> "my.package"],
    [found |-> TRUE, package |-> None],
    [found |-> FALSE, package |-> None] }

\* sys.modules.get(name); protorpc.remote is imported and has no `package'.
SysModulesGet(sys_modules_, name) ==
  IF name = "__main__" THEN sys_modules_ ELSE [found |-> TRUE, package |-> None]

\* '%s.%s' % (package, name)
Dotted(package, name) == <<package, name>>

\* The name the except branch of definition_name computes for a class.
ComputedName(sys_modules_, cls) ==
  LET module == SysModulesGet(sys_modules_, cls.module)
  IN  IF module.found
        THEN Dotted(IF module.package # None THEN module.package ELSE cls.module,
                    cls.name)
        ELSE <<cls.name>>

\* No name: the attribute is not there.
NoName == <<>>

\* cls.__definition_name: the attribute of the first class along the
\* bases that has it in its __dict__ (NoName: AttributeError).
RECURSIVE getattr_definition_name(_, _)
getattr_definition_name(names_, c) ==
  IF names_[c] # NoName THEN names_[c]
  ELSE IF ServiceClasses[c].base = 0 THEN NoName
  ELSE getattr_definition_name(names_, ServiceClasses[c].base)

\* Service.definition_name(cls): what it returns and the attributes after.
definition_name(sys_modules_, names_, c) ==
  LET cached == getattr_definition_name(names_, c)
  IN  IF cached # NoName
        THEN [returned |-> cached, names |-> names_]
        ELSE LET computed == ComputedName(sys_modules_, ServiceClasses[c])
             IN  [returned |-> computed, names |-> [names_ EXCEPT ![c] = computed]]

NoDefinitionName == [cls |-> 0, returned |-> NoName]

NoDefinitionNames == [c \in 1..Len(ServiceClasses) |-> NoName]

DefinitionNameIdle ==
  /\ sys_modules = [found |-> FALSE, package |-> None]
  /\ definition_names = NoDefinitionNames
  /\ dnLast = NoDefinitionName

InitDefinitionName ==
  /\ sys_modules \in MainModules
  /\ definition_names = NoDefinitionNames
  /\ dnLast = NoDefinitionName

\* cls.definition_name(), as ServiceApp.__init__ and the tests call it.
DefinitionName(c) ==
  LET result == definition_name(sys_modules, definition_names, c)
  IN  /\ definition_names' = result.names
      /\ dnLast' = [cls |-> c, returned |-> result.returned]
      /\ UNCHANGED <<sys_modules, otherThanDefinitionName>>

NextDefinitionName ==
  \E c \in 1..Len(ServiceClasses) : DefinitionName(c)

(***************************************************************************)
(* Remote methods declared with the names of their types (remote.py:       *)
(* method and _RemoteMethodInfo).                                          *)
(*   namespace:          the message classes the declaring module holds;   *)
(*   method_info:        the _RemoteMethodInfo of the one remote method,   *)
(*                       with __request_type and __response_type as they   *)
(*                       are stored (Undeclared before the declaration);   *)
(*   reads:              how many times request_type or response_type was  *)
(*                       read;                                             *)
(*   lbLast:             the latest operation, the exception that left it, *)
(*                       what it returned and how many times it called     *)
(*                       messages.find_definition.                         *)
(***************************************************************************)
\* How many times the types of the remote method are read.
MaxReads == 3

\* What may be given as a type: a string, a class, or something else.
StringRef(name) == [kind |-> "string", name |-> name]

ClassRef(name) == [kind |-> "class", name |-> name]

NoneRef == [kind |-> "other", name |-> None]

\* The names a declaration may give; no class is ever named 'Missing'.
TypeNames == {"Request", "Response", "Missing"}

DefinableClasses == {"Request", "Response"}

\* What the decorator may be called with in a module holding the given
\* classes: a name, one of the classes, messages.Message or None.
TypeArguments(namespace_) ==
  {StringRef(n) : n \in TypeNames}
    \cup {ClassRef(c) : c \in namespace_ \cup {"Message"}}
    \cup {NoneRef}

\* isinstance(t, basestring)
is_basestring(t) == t.kind = "string"

\* isinstance(t, type) and issubclass(t, messages.Message) and
\* t is not messages.Message
is_message_class(t) == t.kind = "class" /\ t.name # "Message"

\* messages.find_definition(name, relative_to=module)
find_definition(namespace_, name) ==
  IF name \in namespace_
    THEN [raised |-> NoException, definition |-> ClassRef(name)]
    ELSE [raised |-> Exception("DefinitionNotFoundError", name),
          definition |-> NoneRef]

RemoteMethodInfo(request_type, response_type) ==
  [request_type |-> request_type, response_type |-> response_type]

Undeclared == RemoteMethodInfo(NoneRef, NoneRef)

\* remote.method(request_type, response_type)(function): the TypeError of
\* the decorator, or the _RemoteMethodInfo of the wrapper.
method_decorator(request_type, response_type) ==
  IF ~is_basestring(request_type) /\ ~is_message_class(request_type)
    THEN [raised |-> Exception("TypeError", "Must provide message class for request-type."),
          remote |-> Undeclared]
  ELSE IF ~is_basestring(response_type) /\ ~is_message_class(response_type)
    THEN [raised |-> Exception("TypeError", "Must provide message class for response-type."),
          remote |-> Undeclared]
  ELSE [raised |-> NoException,
        remote |-> RemoteMethodInfo(request_type, response_type)]

\* What reading a type comes to: the exception or the type returned, the
\* type as it is stored afterwards, and the calls of find_definition.
TypeRead(raised, returned, stored, lookups) ==
  [raised |-> raised, returned |-> returned, stored |-> stored, lookups |-> lookups]

\* The property, looking the name up on every read and storing nothing.
resolve_uncached(namespace_, stored) ==
  IF is_basestring(stored)
    THEN LET found == find_definition(namespace_, stored.name)
         IN  TypeRead(found.raised, found.definition, stored, 1)
    ELSE TypeRead(NoException, stored, stored, 0)

\* The body of the properties request_type and response_type: a stored
\* string is looked up and replaced by what was found.
resolve(namespace_, stored) ==
  IF is_basestring(stored)
    THEN LET found == find_definition(namespace_, stored.name)
         IN  IF found.raised # NoException
               THEN TypeRead(found.raised, NoneRef, stored, 1)
               ELSE TypeRead(NoException, found.definition, found.definition, 1)
    ELSE TypeRead(NoException, stored, stored, 0)

NoRead == [op |-> None, raised |-> NoException, returned |-> NoneRef, lookups |-> 0]

LateBindingIdle ==
  /\ namespace = {}
  /\ method_info = Undeclared
  /\ reads = 0
  /\ lbLast = NoRead

\* A module is being executed: some of its classes exist already.
InitLateBinding ==
  /\ namespace \in SUBSET DefinableClasses
  /\ method_info = Undeclared
  /\ reads = 0
  /\ lbLast = NoRead

\* class C(messages.Message) in the declaring module.
DefineClass(name) ==
  /\ name \notin namespace
  /\ namespace' = namespace \cup {name}
  /\ lbLast' = [NoRead EXCEPT !.op = "class"]
  /\ UNCHANGED <<method_info, reads, otherThanLateBinding>>

\* @remote.method(request_type, response_type) on a function.
DeclareMethod ==
  \E request_type, response_type \in TypeArguments(namespace) :
    LET result == method_decorator(request_type, response_type)
    IN  /\ method_info = Undeclared
        /\ method_info' = result.remote
        /\ lbLast' = [op |-> "method", raised |-> result.raised,
                      returned |-> NoneRef, lookups |-> 0]
        /\ UNCHANGED <<namespace, reads, otherThanLateBinding>>

\* method_info.request_type
ReadRequestType ==
  LET result == resolve(namespace, method_info.request_type)
  IN  /\ method_info # Undeclared
      /\ reads < MaxReads
      /\ reads' = reads + 1
      /\ method_info' = [method_info EXCEPT !.request_type = result.stored]
      /\ lbLast' = [op |-> "request_type", raised |-> result.raised,
                    returned |-> result.returned, lookups |-> result.lookups]
      /\ UNCHANGED <<namespace, otherThanLateBinding>>

\* method_info.response_type
ReadResponseType ==
  LET result == resolve(namespace, method_info.response_type)
  IN  /\ method_info # Undeclared
      /\ reads < MaxReads
      /\ reads' = reads + 1
      /\ method_info' = [method_info EXCEPT !.response_type = result.stored]
      /\ lbLast' = [op |-> "response_type", raised |-> result.raised,
                    returned |-> result.returned, lookups |-> result.lookups]
      /\ UNCHANGED <<namespace, otherThanLateBinding>>

NextLateBinding ==
  \/ \E name \in DefinableClasses : DefineClass(name)
  \/ DeclareMethod
  \/ ReadRequestType
  \/ ReadResponseType

(***************************************************************************)
(* One ServiceApp (experimental/wsgi_handlers.py) and the requests it is   *)
(* called with.                                                            *)
(*   handled: how many requests the application has been called with;     *)
(*   appLast: the latest request and what the call came to.                *)
(***************************************************************************)
NoAnswer == Answer(<<>>, <<>>, None)

ServiceAppIdle ==
  /\ handled = 0
  /\ appLast = [environ |-> NoEnviron, answer |-> NoAnswer]

InitServiceApp == ServiceAppIdle

\* app(environ, start_response), iterated by the server.
Handle(environ) ==
  /\ handled < MaxRequests
  /\ handled' = handled + 1
  /\ appLast' = [environ |-> environ, answer |-> ServiceApp_run_application(environ)]
  /\ UNCHANGED otherThanServiceApp

NextServiceApp == \E environ \in Environs : Handle(environ)

(***************************************************************************)
(* A service class with several base service classes (remote.py).          *)
(*   hierarchy: Service, then two service classes that derive from it,     *)
(*              then the classes that derive from those two;               *)
(*   hierLast:  how the latest class statement ended.                      *)
(***************************************************************************)
\* How many classes may derive from the two base service classes.
MaxDerived == 1

\* What the body of a base service class binds m to, if it binds it.
BaseBodies(impl) ==
  {body \in ClassBodies(impl) : DOMAIN body \subseteq {"m"}}

\* The bases of a derived class: one or both of the two base service
\* classes, in either order.
DerivedBases == {<<2>>, <<3>>, <<2, 3>>, <<3, 2>>}

\* The classes of a sequence, each kept at its last place only.
RECURSIVE KeepLast(_)
KeepLast(seq) ==
  IF seq = <<>> THEN <<>>
  ELSE IF \E i \in 2..Len(seq) : seq[i] = Head(seq)
    THEN KeepLast(Tail(seq))
    ELSE <<Head(seq)>> \o KeepLast(Tail(seq))

\* cls.__mro__ without object: the class, then the classes of its bases
\* from left to right, a class shared by several bases after all of them.
RECURSIVE mro(_, _)
RECURSIVE mro_of_bases(_, _)
mro_of_bases(known, bases) ==
  IF bases = <<>> THEN <<>>
  ELSE mro(known, Head(bases)) \o mro_of_bases(known, Tail(bases))

mro(known, c) == <<c>> \o KeepLast(mro_of_bases(known, known[c].bases))

\* getattr(cls, name): the attribute in the dictionary of the first class
\* of the method resolution order that has it.
RECURSIVE lookup(_, _, _)
lookup(known, order, name) ==
  IF order = <<>> THEN Value
  ELSE IF name \in DOMAIN known[Head(order)].dct THEN known[Head(order)].dct[name]
  ELSE lookup(known, Tail(order), name)

getattr(known, c, name) == lookup(known, mro(known, c), name)

HierarchyIdle ==
  /\ hierarchy = <<ServiceClass(<<>>, <<>>, ServiceBody).class>>
  /\ hierLast = [op |-> None, raised |-> NoException]

InitHierarchy == HierarchyIdle

\* class A(remote.Service) and class B(remote.Service)
DefineBase(declared) ==
  /\ Len(hierarchy) < 3
  /\ LET defined == ServiceClass(hierarchy, <<1>>, declared)
     IN  /\ hierarchy' = IF defined.raised = NoException
                           THEN Append(hierarchy, defined.class) ELSE hierarchy
         /\ hierLast' = [op |-> "class", raised |-> defined.raised]
  /\ UNCHANGED otherThanHierarchy

\* class C(A), class C(B), class C(A, B) or class C(B, A)
DefineDerived(bases, declared) ==
  /\ Len(hierarchy) >= 3
  /\ Len(hierarchy) < 3 + MaxDerived
  /\ LET defined == ServiceClass(hierarchy, bases, declared)
     IN  /\ hierarchy' = IF defined.raised = NoException
                           THEN Append(hierarchy, defined.class) ELSE hierarchy
         /\ hierLast' = [op |-> "class", raised |-> defined.raised]
  /\ UNCHANGED otherThanHierarchy

NextHierarchy ==
  \/ \E declared \in BaseBodies(Len(hierarchy) + 1) : DefineBase(declared)
  \/ \E bases \in DerivedBases, declared \in BaseBodies(Len(hierarchy) + 1) :
       DefineDerived(bases, declared)

(***************************************************************************)
(* Two callers observing one Rpc of HttpTransport at the same time         *)
(* (transport.py: Rpc.wait and wait_impl of _start_rpc).  The steps of a   *)
(* caller are the statements of wait and wait_impl; nothing in the code    *)
(* keeps the statements of two callers apart.                              *)
(*   shared:    the Rpc both callers hold;                                 *)
(*   pc:        where each caller is: before the call ("call"), past the   *)
(*              test of wait and about to fetch ("fetching"), holding the  *)
(*              decoded response and about to call set_response            *)
(*              ("setting"), past wait and about to read the attribute     *)
(*              ("reading"), or back from the call ("returned");           *)
(*   local:     what each caller called, the decoded response it holds,    *)
(*              the exception that left its call and what it got back;     *)
(*   performed: how many blocking fetches have been performed.             *)
(***************************************************************************)
Callers == {1, 2}

\* What the fetch of a caller may come to.
CallerOutcomes ==
  {o \in HttpOutcomes :
     o.reason = JunkPayload("a server error") /\ o.content_type = CONTENT_TYPE}
    \cup {UrlErrorOutcome}

\* The two ways of observing that the callers use.
CallerObservers == {"response", "wait"}

NoLocal == [how |-> "wait", response |-> None, raised |-> NoException, got |-> None]

ConcurrentIdle ==
  /\ shared = NoRpc
  /\ pc = [t \in Callers |-> "call"]
  /\ local = [t \in Callers |-> NoLocal]
  /\ performed = 0

\* rpc = transport.send_rpc(remote_info, request); both callers hold rpc.
InitConcurrent ==
  /\ shared = Rpc(1, [value |-> "request"])
  /\ pc = [t \in Callers |-> "call"]
  /\ local = [t \in Callers |-> NoLocal]
  /\ performed = 0

\* rpc.response or rpc.wait(), up to the test of Rpc.wait:
\* `if self.__state == remote.RpcState.RUNNING'
EnterWait(t, how) ==
  /\ pc[t] = "call"
  /\ local' = [local EXCEPT ![t].how = how]
  /\ pc' = [pc EXCEPT ![t] = IF shared.state = RUNNING THEN "fetching" ELSE "reading"]
  /\ UNCHANGED <<shared, performed, otherThanConcurrent>>

\* wait_impl: http_request.get_response() and protocol.decode_message
Fetch(t, outcome) ==
  /\ pc[t] = "fetching"
  /\ performed' = performed + 1
  /\ LET encoded_response == get_response(FALSE, outcome)
         decoded == decode_message("Message", encoded_response.content)
     IN  IF encoded_response.raised # NoException
           THEN /\ local' = [local EXCEPT ![t].raised = encoded_response.raised]
                /\ pc' = [pc EXCEPT ![t] = "returned"]
         ELSE IF decoded.raised # NoException
           THEN /\ local' = [local EXCEPT ![t].raised = decoded.raised]
                /\ pc' = [pc EXCEPT ![t] = "returned"]
         ELSE /\ local' = [local EXCEPT ![t].response = decoded.message]
              /\ pc' = [pc EXCEPT ![t] = "setting"]
  /\ UNCHANGED <<shared, otherThanConcurrent>>

\* wait_impl: rpc.set_response(response)
SetFetched(t) ==
  /\ pc[t] = "setting"
  /\ LET result == set_response(shared, local[t].response)
     IN  /\ shared' = result.rpc
         /\ local' = [local EXCEPT ![t].raised = result.raised]
         /\ pc' = [pc EXCEPT ![t] = IF result.raised # NoException THEN "returned" ELSE "reading"]
  /\ UNCHANGED <<performed, otherThanConcurrent>>

\* The property after its wait: `return self.__response'; wait() returns None.
ReadAttribute(t) ==
  /\ pc[t] = "reading"
  /\ local' = [local EXCEPT ![t].got = Attribute(shared, local[t].how)]
  /\ pc' = [pc EXCEPT ![t] = "returned"]
  /\ UNCHANGED <<shared, performed, otherThanConcurrent>>

NextConcurrent ==
  \/ \E t \in Callers, how \in CallerObservers : EnterWait(t, how)
  \/ \E t \in Callers, outcome \in CallerOutcomes : Fetch(t, outcome)
  \/ \E t \in Callers : SetFetched(t)
  \/ \E t \in Callers : ReadAttribute(t)

(***************************************************************************)
(* The specifications: one for each part of the model, the other parts     *)
(* idle.                                                                   *)
(***************************************************************************)
InitSpecRpc == InitRpc /\ InitProtocols /\ NothingToConstruct /\ InitService /\ InvocationIdle /\ StubIdle /\ ServerIdle /\ DescriptorIdle /\ ImportIdle /\ DefinitionNameIdle /\ LateBindingIdle /\ ServiceAppIdle /\ HierarchyIdle /\ ConcurrentIdle

SpecRpc == InitSpecRpc /\ [][NextRpc]_vars

InitSpecProtocols == RpcIdle /\ InitProtocols /\ NothingToConstruct /\ InitService /\ InvocationIdle /\ StubIdle /\ ServerIdle /\ DescriptorIdle /\ ImportIdle /\ DefinitionNameIdle /\ LateBindingIdle /\ ServiceAppIdle /\ HierarchyIdle /\ ConcurrentIdle

SpecProtocols == InitSpecProtocols /\ [][NextProtocols]_vars

InitSpecProtocolConfig == RpcIdle /\ InitProtocols /\ InitProtocolConfig /\ InitService /\ InvocationIdle /\ StubIdle /\ ServerIdle /\ DescriptorIdle /\ ImportIdle /\ DefinitionNameIdle /\ LateBindingIdle /\ ServiceAppIdle /\ HierarchyIdle /\ ConcurrentIdle

SpecProtocolConfig == InitSpecProtocolConfig /\ [][NextProtocolConfig]_vars

InitSpecService == RpcIdle /\ InitProtocols /\ NothingToConstruct /\ InitService /\ InvocationIdle /\ StubIdle /\ ServerIdle /\ DescriptorIdle /\ ImportIdle /\ DefinitionNameIdle /\ LateBindingIdle /\ ServiceAppIdle /\ HierarchyIdle /\ ConcurrentIdle

SpecService == InitSpecService /\ [][NextService]_vars

InitSpecInvocation == RpcIdle /\ InitProtocols /\ NothingToConstruct /\ InitService /\ InitInvocation /\ StubIdle /\ ServerIdle /\ DescriptorIdle /\ ImportIdle /\ DefinitionNameIdle /\ LateBindingIdle /\ ServiceAppIdle /\ HierarchyIdle /\ ConcurrentIdle

SpecInvocation == InitSpecInvocation /\ [][NextInvocation]_vars

InitSpecStub == RpcIdle /\ InitProtocols /\ NothingToConstruct /\ InitService /\ InvocationIdle /\ InitStub /\ ServerIdle /\ DescriptorIdle /\ ImportIdle /\ DefinitionNameIdle /\ LateBindingIdle /\ ServiceAppIdle /\ HierarchyIdle /\ ConcurrentIdle

SpecStub == InitSpecStub /\ [][NextStub]_vars

InitSpecServer == RpcIdle /\ InitProtocols /\ NothingToConstruct /\ InitService /\ InvocationIdle /\ StubIdle /\ InitServer /\ DescriptorIdle /\ ImportIdle /\ DefinitionNameIdle /\ LateBindingIdle /\ ServiceAppIdle /\ HierarchyIdle /\ ConcurrentIdle

SpecServer == InitSpecServer /\ [][NextServer]_vars

InitSpecDescriptor == RpcIdle /\ InitProtocols /\ NothingToConstruct /\ InitService /\ InvocationIdle /\ StubIdle /\ ServerIdle /\ InitDescriptor /\ ImportIdle /\ DefinitionNameIdle /\ LateBindingIdle /\ ServiceAppIdle /\ HierarchyIdle /\ ConcurrentIdle

SpecDescriptor == InitSpecDescriptor /\ [][NextDescriptor]_vars

InitSpecImport == RpcIdle /\ InitProtocols /\ NothingToConstruct /\ InitService /\ InvocationIdle /\ StubIdle /\ ServerIdle /\ DescriptorIdle /\ InitImport /\ DefinitionNameIdle /\ LateBindingIdle /\ ServiceAppIdle /\ HierarchyIdle /\ ConcurrentIdle

SpecImport == InitSpecImport /\ [][NextImport]_vars

InitSpecDefinitionName == RpcIdle /\ InitProtocols /\ NothingToConstruct /\ InitService /\ InvocationIdle /\ StubIdle /\ ServerIdle /\ DescriptorIdle /\ ImportIdle /\ InitDefinitionName /\ LateBindingIdle /\ ServiceAppIdle /\ HierarchyIdle /\ ConcurrentIdle

SpecDefinitionName == InitSpecDefinitionName /\ [][NextDefinitionName]_vars

InitSpecLateBinding == RpcIdle /\ InitProtocols /\ NothingToConstruct /\ InitService /\ InvocationIdle /\ StubIdle /\ ServerIdle /\ DescriptorIdle /\ ImportIdle /\ DefinitionNameIdle /\ InitLateBinding /\ ServiceAppIdle /\ HierarchyIdle /\ ConcurrentIdle

SpecLateBinding == InitSpecLateBinding /\ [][NextLateBinding]_vars

InitSpecServiceApp == RpcIdle /\ InitProtocols /\ NothingToConstruct /\ InitService /\ InvocationIdle /\ StubIdle /\ ServerIdle /\ DescriptorIdle /\ ImportIdle /\ DefinitionNameIdle /\ LateBindingIdle /\ InitServiceApp /\ HierarchyIdle /\ ConcurrentIdle

SpecServiceApp == InitSpecServiceApp /\ [][NextServiceApp]_vars

InitSpecHierarchy == RpcIdle /\ InitProtocols /\ NothingToConstruct /\ InitService /\ InvocationIdle /\ StubIdle /\ ServerIdle /\ DescriptorIdle /\ ImportIdle /\ DefinitionNameIdle /\ LateBindingIdle /\ ServiceAppIdle /\ InitHierarchy /\ ConcurrentIdle

SpecHierarchy == InitSpecHierarchy /\ [][NextHierarchy]_vars

InitSpecConcurrent == RpcIdle /\ InitProtocols /\ NothingToConstruct /\ InitService /\ InvocationIdle /\ StubIdle /\ ServerIdle /\ DescriptorIdle /\ ImportIdle /\ DefinitionNameIdle /\ LateBindingIdle /\ ServiceAppIdle /\ HierarchyIdle /\ InitConcurrent

SpecConcurrent == InitSpecConcurrent /\ [][NextConcurrent]_vars

(***************************************************************************)
(* Properties of the Rpc life cycle, checked under SpecRpc.                *)
(***************************************************************************)
Terminal(r) == r.state \in RpcState \ {RUNNING}

SetCalls == {"set_response", "set_status"}

\* C1: once an Rpc has left RUNNING, every later set_response or set_status
\* call on it raises, and no step changes its state, error_message or
\* error_name.
C1_TerminalStateIsFinal ==
  [][(Terminal(rpc) /\ rpc'.id = rpc.id)
       => /\ rpc'.state = rpc.state
          /\ rpc'.error_message = rpc.error_message
          /\ rpc'.error_name = rpc.error_name
          /\ (last'.op \in SetCalls => last'.raised # NoException)]_vars

\* A set_response or set_status call on a terminal Rpc has been rejected.
C1_Witness ==
  /\ rpc.state = "APPLICATION_ERROR"
  /\ rpc.error_message = "an error"
  /\ rpc.error_name = "blam"
  /\ last.op \in SetCalls
  /\ last.raised.type = "RpcStateError"

\* C2: reading `response' on an Rpc that ended in an error state raises the
\* error of that state with the Rpc's error message; it returns nothing.
C2_ResponseOfFailedRpcRaises ==
  (last.op = "response" /\ rpc.state \in ErrorStates)
    => /\ last.raised.type = rpc.state
       /\ last.raised.message = rpc.error_message

\* A failed fetch: an HTTP response outside 2xx, or no response at all.
Failure(outcome) ==
  \/ outcome.kind \in {"url_error", "invalid_url", "too_large"}
  \/ outcome.kind = "response" /\ outcome.code \notin 200..299

\* C3: wait() never raises for a failed fetch; after it the Rpc is in a
\* terminal error state whose error_message carries the failure.
C3_WaitNeverRaises ==
  (last.op = "wait" /\ last.fetched /\ Failure(last.outcome))
    => /\ last.raised = NoException
       /\ rpc.state \in ErrorStates
       /\ rpc.error_message # None

\* The state C4 gives an Rpc whose fetch failed.
C4_State(outcome) ==
  IF outcome.kind # "response"
    THEN "NETWORK_ERROR"
  ELSE IF outcome.content_type = CONTENT_TYPE /\ outcome.body.tag = "RpcStatus"
    THEN outcome.body.status.state
  ELSE "SERVER_ERROR"

\* C4: after a failed fetch the Rpc is in the state of the status decoded
\* from the body (content type of the protocol, decodable body), else in
\* SERVER_ERROR for an HTTP error and NETWORK_ERROR for a transport failure,
\* and it is never OK.
C4_StateOfFailedFetch ==
  (last.fetched /\ Failure(last.outcome))
    => /\ rpc.state = C4_State(last.outcome)
       /\ rpc.state # OK

\* C5: send_rpc with a request that lacks a required field raises at the
\* call site: _start_rpc is not entered and no Rpc is created.
C5_IncompleteRequestFailsLocally ==
  [][(last'.op = "send_rpc" /\ ~check_initialized(last'.request))
       => /\ last'.raised.type = "ValidationError"
          /\ started' = started
          /\ rpc' = rpc
          /\ fetches' = fetches]_vars

\* After one RPC was started, a send_rpc with an incomplete request failed.
C5_Witness ==
  /\ last.op = "send_rpc"
  /\ ~check_initialized(last.request)
  /\ last.raised.type = "ValidationError"
  /\ started = 1
  /\ rpc.id = 1

\* C6: send_rpc returns a RUNNING Rpc without fetching; only an observer
\* fetches, and one Rpc fetches at most once.
C6_FetchAtMostOnce ==
  /\ (last.op = "send_rpc" /\ last.raised = NoException)
       => (rpc.state = RUNNING /\ fetches = 0)
  /\ last.fetched => last.op \in Observers
  /\ fetches <= 1

(***************************************************************************)
(* Properties of the protocol registry, checked under SpecProtocols, and   *)
(* of the ProtocolConfig constructor, checked under SpecProtocolConfig.    *)
(***************************************************************************)
TypesOf(config) == {config.content_types[i] : i \in 1..Len(config.content_types)}

\* The configs a lookup of the registry can return.
RegisteredConfigs(self) ==
  {self.by_name[n] : n \in names(self)}
    \cup {self.by_content_type[t] : t \in content_types(self)}

\* C7: after any sequence of registrations, accepted or rejected, no two
\* registered configs share a name or a content type, and a content type
\* resolves to a config that is registered under its name and lists it.
C7_RegistryIsConsistent ==
  /\ \A c1, c2 \in RegisteredConfigs(protocols) :
       c1 # c2 => c1.name # c2.name /\ TypesOf(c1) \cap TypesOf(c2) = {}
  /\ \A t \in content_types(protocols) :
       LET c == lookup_by_content_type(protocols, t).config
       IN  /\ lookup_by_name(protocols, c.name).config = c
           /\ t \in TypesOf(c)

\* Two configs are registered and a third registration was rejected.
C7_Witness ==
  /\ Cardinality(RegisteredConfigs(protocols)) = 2
  /\ regLast.op = "add_protocol_config"
  /\ regLast.raised.type = "ServiceConfigurationError"

Distinct(s) == \A i, j \in 1..Len(s) : i # j => s[i] # s[j]

\* The content types the constructor is given: the default (the protocol's
\* own when none is given), then the alternates.
GivenContentTypes(args) ==
  <<IF args.default_content_type = None
      THEN ProtocolContentType(args.protocol) ELSE args.default_content_type>>
    \o args.alternative_content_types

\* C8: constructing a ProtocolConfig raises ServiceConfigurationError when
\* the default content type is among the alternates or an alternate occurs
\* twice, and succeeds when all its content types are pairwise distinct.
C8_ConstructionFailsOnDuplicates ==
  newConfig # NotConstructed
    => IF Distinct(GivenContentTypes(newArgs))
         THEN /\ newConfig.raised = NoException
              /\ newConfig.config.content_types = GivenContentTypes(newArgs)
         ELSE newConfig.raised.type = "ServiceConfigurationError"

\* A construction was refused for a duplicate that is not next to its twin
\* in the order given.
C8_Witness ==
  /\ newConfig.raised.type = "ServiceConfigurationError"
  /\ newArgs.default_content_type = "text/plain"
  /\ newArgs.alternative_content_types = <<"application/json", "text/plain">>

\* C9: every config that add_protocol_config accepted is what
\* lookup_by_name returns for its name and lookup_by_content_type for each
\* of its content types, whatever was attempted since; a name or content
\* type that was never registered raises KeyError.
C9_LookupsReturnTheRegistered ==
  /\ \A c \in registered :
       /\ lookup_by_name(protocols, c.name) = [raised |-> NoException, config |-> c]
       /\ \A t \in TypesOf(c) :
            lookup_by_content_type(protocols, t) = [raised |-> NoException, config |-> c]
  /\ \A n \in ProtocolNames \ {c.name : c \in registered} :
       lookup_by_name(protocols, n).raised.type = "KeyError"
  /\ \A t \in RegistryContentTypes \ UNION {TypesOf(c) : c \in registered} :
       lookup_by_content_type(protocols, t).raised.type = "KeyError"
  /\ regLast.op \in {"lookup_by_name", "lookup_by_content_type"}
       => \/ regLast.config \in registered /\ regLast.raised = NoException
          \/ regLast.config = NoConfig /\ regLast.raised.type = "KeyError"

\* A lookup by content type returned the first config after two later
\* registration attempts.
C9_Witness ==
  /\ regLast.op = "lookup_by_content_type"
  /\ regLast.raised = NoException
  /\ regLast.config \in registered
  /\ regLast.config.id = 1
  /\ made = 3

(***************************************************************************)
(* Claims about the service classes.                                       *)
(***************************************************************************)
Names(cls) == DOMAIN all_remote_methods(cls)

\* The names a class body declares as remote methods.
DeclaredRemote(cls) ==
  {a \in DOMAIN cls.declared : get_remote_method_info(cls.declared[a])}

\* The names of the remote methods of the bases of a class.
InheritedRemote(cls) ==
  UNION {Names(classes[cls.bases[i]]) : i \in 1..Len(cls.bases)}

\* C10: all_remote_methods() of a service class maps exactly the names its
\* body declares as remote methods and the names its base service classes
\* have, each to a remote method; it is the empty map for Service, and an
\* attribute that is not a remote method and that no base has as one is
\* not in it.
C10_AllRemoteMethods ==
  /\ all_remote_methods(classes[1]) = <<>>
  /\ \A c \in 1..Len(classes) :
       LET cls == classes[c]
       IN  /\ Names(cls) = DeclaredRemote(cls) \cup InheritedRemote(cls)
           /\ \A k \in Names(cls) :
                get_remote_method_info(all_remote_methods(cls)[k])
           /\ \A a \in DOMAIN cls.declared :
                ~get_remote_method_info(cls.declared[a]) /\ a \notin InheritedRemote(cls)
                  => a \notin Names(cls)

\* A service declares remote method m and a plain function n, and has {m};
\* a subclass of it adds remote method n, and has {m, n}.
C10_Witness ==
  /\ Len(classes) = 3
  /\ classes[2].bases = <<1>>
  /\ DeclaredRemote(classes[2]) = {"m"}
  /\ DOMAIN classes[2].declared = {"m", "n"}
  /\ Names(classes[2]) = {"m"}
  /\ classes[3].bases = <<2>>
  /\ DeclaredRemote(classes[3]) = {"n"}
  /\ Names(classes[3]) = {"m", "n"}

\* The bases of a class that have a remote method of the name.
BasesWith(cls, a) ==
  {cls.bases[i] : i \in {j \in 1..Len(cls.bases) : a \in Names(classes[cls.bases[j]])}}

SameTypes(x, y) ==
  x.request_type = y.request_type /\ x.response_type = y.response_type

\* The names a class body binds to a plain function while a base has a
\* remote method of that name.
PlainOverrides(cls) ==
  {a \in DOMAIN cls.declared \cap InheritedRemote(cls) : cls.declared[a].kind = "function"}

\* C12: when the body of a service class binds the name of an inherited
\* remote method to a plain function, the class's entry for the name is a
\* remote method with the request and response types of the entry of a
\* base and with the function of the class body as its implementation; the
\* entry of each base still has the implementation it had.
C12_PlainOverrideTakesTheTypesOfTheBase ==
  \A c \in 1..Len(classes) :
    \A a \in PlainOverrides(classes[c]) :
      LET entry == all_remote_methods(classes[c])[a]
      IN  /\ get_remote_method_info(entry)
          /\ entry.impl = c
          /\ \E b \in BasesWith(classes[c], a) :
               SameTypes(entry, all_remote_methods(classes[b])[a])
          /\ Len(classes[c].bases) = 1 =>
               SameTypes(entry, all_remote_methods(classes[classes[c].bases[1]])[a])
          /\ \A b \in BasesWith(classes[c], a) :
               all_remote_methods(classes[b])[a].impl < c

\* A service declares remote method m on SimpleRequest and SimpleResponse;
\* a subclass overrides m with a plain function and has m as a remote
\* method on the same types, implemented by its own function.
C12_Witness ==
  /\ Len(classes) = 3
  /\ classes[2].declared = [a \in {"m"} |-> method("SimpleRequest", "SimpleResponse", Function(2))]
  /\ classes[3].bases = <<2>>
  /\ classes[3].declared = [a \in {"m"} |-> Function(3)]
  /\ all_remote_methods(classes[3])["m"] = method("SimpleRequest", "SimpleResponse", Function(3))
  /\ all_remote_methods(classes[2])["m"] = method("SimpleRequest", "SimpleResponse", Function(2))

\* C13: a class statement whose body declares an inherited remote method
\* as a remote method again, with another request and response type pair,
\* raises ServiceDefinitionError and creates no class (hence no registry
\* and no stub class).
C13_RedeclaringWithOtherTypesFails ==
  [][svcLast'.redeclared # {} =>
       /\ svcLast'.raised.type = "ServiceDefinitionError"
       /\ classes' = classes]_vars

\* A subclass of a service with remote method m declared m again on the
\* other type pair, and the class statement raised.
C13_Witness ==
  /\ Len(classes) = 2
  /\ "m" \in Names(classes[2])
  /\ svcLast.redeclared = {"m"}
  /\ svcLast.raised.type = "ServiceDefinitionError"

(***************************************************************************)
(* Claims about the invocation of a remote method.                         *)
(***************************************************************************)
\* C11: a call of a remote method with a request that is not an instance
\* of the declared request type raises InvalidRequestError and does not
\* run the user's method body; with a proper request the body runs exactly
\* once, and if what it returns is not an instance of the declared
\* response type the call raises InvalidResponseError and returns nothing.
C11_TypesAreCheckedAroundTheBody ==
  [][invoked' # invoked =>
       LET call == invLast'
       IN  IF ~isinstance(call.request, remote_method.request_type)
             THEN /\ call.raised.type = "InvalidRequestError"
                  /\ bodyRuns' = bodyRuns
                  /\ call.returned = NoObject
           ELSE IF ~isinstance(call.response, remote_method.response_type)
             THEN /\ call.raised.type = "InvalidResponseError"
                  /\ bodyRuns' = bodyRuns + 1
                  /\ call.returned = NoObject
           ELSE /\ call.raised = NoException
                /\ bodyRuns' = bodyRuns + 1
                /\ call.returned = call.response]_vars

\* A call with the string 'wrong' raised without running the body, after a
\* call with a proper request, whose body ran.
C11_Witness ==
  /\ invoked = 2
  /\ bodyRuns = 1
  /\ invLast.request = Object("str")
  /\ invLast.raised.type = "InvalidRequestError"

(***************************************************************************)
(* Claims about the stubs.                                                 *)
(***************************************************************************)
\* The latest call of transport.send_rpc.
LastSent(sent_) == sent_[Len(sent_)]

\* C14: a method of the asynchronous stub called with a request and with
\* keyword arguments raises TypeError and does not call the transport;
\* called with a request only, or with keyword arguments only, it calls
\* transport.send_rpc once, with the request it was given or with a
\* request of the declared request type that has the keyword arguments as
\* its fields, and what it returns is the Rpc that send_rpc returned.
C14_RequestOrKeywordsNeverBoth ==
  [][stubCalls' # stubCalls /\ stubLast'.op = "async" /\ Len(stubLast'.args) <= 1 =>
       LET call == stubLast'
       IN  IF call.args # <<>> /\ DOMAIN call.kwargs # {}
             THEN call.raised.type = "TypeError" /\ sent' = sent
           ELSE IF call.args # <<>> \/ DOMAIN call.kwargs # {}
             THEN /\ Len(sent') = Len(sent) + 1
                  /\ SubSeq(sent', 1, Len(sent)) = sent
                  /\ LastSent(sent').request_type = remote.request_type
                  /\ LastSent(sent').response_type = remote.response_type
                  /\ LastSent(sent').request =
                       IF call.args # <<>> THEN call.args[1]
                       ELSE Message(remote.request_type, call.kwargs["value"])
                  /\ call.raised = NoException =>
                       call.returned = LastSent(sent').rpc /\ call.returned # NoRpc
           ELSE TRUE]_vars

\* The asynchronous stub was called with keyword arguments only and
\* returned the Rpc of the transport's second send_rpc, after a call with
\* both a request and keyword arguments that raised.
C14_Witness ==
  /\ stubCalls = 2
  /\ Len(sent) = 1
  /\ stubLast.op = "async"
  /\ stubLast.args = <<>>
  /\ DOMAIN stubLast.kwargs = {"value"}
  /\ stubLast.raised = NoException
  /\ stubLast.returned = sent[1].rpc
  /\ sent[1].request = Message(remote.request_type, "request")

\* C15: a call of a method of the synchronous stub calls the transport as
\* the asynchronous stub does with the same arguments, and when that call
\* returns an Rpc it returns the response the Rpc resolves to.
C15_SyncIsAsyncThenResponse ==
  [][stubCalls' # stubCalls /\ stubLast'.op = "sync" =>
       LET call == stubLast'
           async == async_method(sent, remote, call.args, call.kwargs)
       IN  /\ sent' = async.sent
           /\ async.raised # NoException => call.raised = async.raised
           /\ async.raised = NoException =>
                call.raised = NoException /\ call.returned = call.response]_vars

(***************************************************************************)
(* Claims about the server applications.                                   *)
(***************************************************************************)
Count(trace, call) == Cardinality({i \in 1..Len(trace) : trace[i] = call})

\* The remote method was run, after exactly one initialize_request_state.
HookOnceBeforeMethod(trace) ==
  /\ Count(trace, "initialize_request_state") = 1
  /\ \E i, j \in 1..Len(trace) :
       i < j /\ trace[i] = "initialize_request_state" /\ trace[j] = "method"

ValidStatuses ==
  {status \in Statuses : status_check_initialized(status) /\ status.state # RUNNING}

\* C17: set_status with a status whose state is not set raises
\* ValidationError and leaves the Rpc as it was; an Rpc that was RUNNING is
\* still RUNNING with response, error_message and error_name unset, and
\* set_response with a message and set_status with a valid status succeed
\* on it.
C17_UninitializedStatusIsRejected ==
  [][(last'.op = "set_status" /\ ~status_check_initialized(last'.argument)) =>
       /\ last'.raised.type = "ValidationError"
       /\ rpc' = rpc
       /\ rpc.state = RUNNING =>
            /\ rpc'.state = RUNNING
            /\ rpc'.response = None
            /\ rpc'.error_message = None
            /\ rpc'.error_name = None
            /\ \A response \in ResponseMessages :
                 /\ set_response(rpc', response).raised = NoException
                 /\ set_response(rpc', response).rpc.state = OK
            /\ \A status \in ValidStatuses :
                 /\ set_status(rpc', status).raised = NoException
                 /\ set_status(rpc', status).rpc.state = status.state]_vars

\* set_status was called on a RUNNING Rpc with a status that has no state,
\* and raised.
C17_Witness ==
  /\ last.op = "set_status"
  /\ last.argument = RpcStatus(None, None, None)
  /\ last.raised.type = "ValidationError"
  /\ rpc.state = RUNNING

\* C18: the Rpc that send_rpc returns is RUNNING and holds the request it
\* was sent with; an Rpc that is RUNNING has no response, no error_message
\* and no error_name, whatever calls of set_response and set_status were
\* rejected before.
C18_RunningRpcHasNothingSet ==
  /\ (last.op = "send_rpc" /\ last.raised = NoException) =>
       rpc = Rpc(rpc.id, last.request) /\ rpc.state = RUNNING
  /\ (rpc # NoRpc /\ rpc.state = RUNNING) =>
       /\ rpc.response = None
       /\ rpc.error_message = None
       /\ rpc.error_name = None

\* A RUNNING Rpc after a rejected set_response.
C18_Witness ==
  /\ rpc.state = RUNNING
  /\ last.op = "set_response"
  /\ last.raised.type = "TypeError"
  /\ rpc.response = None

(***************************************************************************)
(* Claims about the descriptors, checked under SpecDescriptor.             *)
(***************************************************************************)
DescribedFields(descriptor) == descriptor.fields.value

\* C19: the field descriptors that describe_message returns are in
\* strictly ascending order of field number, whatever the order in which
\* the class declares its fields and whatever the order of all_fields(),
\* and there is exactly one descriptor for each declared field.
C19_FieldsAscendByNumber ==
  described # NoDescriptor =>
    LET fields == DescribedFields(described)
    IN  /\ \A i, j \in 1..Len(fields) : i < j => fields[i].number < fields[j].number
        /\ Len(fields) = Len(definition.fields)
        /\ \A i \in 1..Len(definition.fields) :
             Cardinality({j \in 1..Len(fields) :
                            fields[j] = describe_field(definition.fields[i])}) = 1

\* A class that declares field 3 before field 1 has been described.
C19_Witness ==
  /\ described # NoDescriptor
  /\ Len(definition.fields) = 2
  /\ definition.fields[1].number = 3
  /\ definition.fields[2].number = 1
  /\ described.fields.value[1].number = 1
  /\ described.fields.value[2].number = 3

RegisteredLevels(registry) == {level \in Levels : registry[level] # 0}

ImportedLevels == UNION {LevelsOf(f.package) : f \in imported}

\* C21: after any sequence of imports into one registry, also one that held
\* modules before and also when a file is imported again, the registry
\* holds one module for each package level (the levels it held before and
\* the levels of the imported packages, each under its own module), a
\* module it held before is still the one registered, each module of a
\* lower level is the attribute of the module of the level above, and the
\* definitions of every imported file are in the module of its package.
C21_OneModulePerPackageLevel ==
  /\ RegisteredLevels(modules) = RegisteredLevels(preexisting) \cup ImportedLevels
  /\ Len(units) = Cardinality(RegisteredLevels(modules))
  /\ \A l1, l2 \in RegisteredLevels(modules) : modules[l1] = modules[l2] => l1 = l2
  /\ \A level \in RegisteredLevels(modules) :
       /\ modules[level] \in 1..Len(units)
       /\ units[modules[level]].name = level
  /\ \A level \in RegisteredLevels(preexisting) : modules[level] = preexisting[level]
  /\ \A level \in ImportedLevels :
       Len(level) > 1
         => units[modules[Parent(level)]].attributes[level[Len(level)]] = modules[level]
  /\ \A f \in imported : f.definitions \subseteq units[modules[f.package]].definitions

\* Into a registry that held 'root' and 'root.nested', two files of package
\* 'root.nested' and one of 'root.nested.nested' have been imported, the
\* latest import repeating files imported before: three modules exist.
C21_Witness ==
  /\ RegisteredLevels(preexisting) = {<<"root">>, <<"root", "nested">>}
  /\ FileDescriptor(<<"root", "nested">>, {"OtherMessage"}) \in imported
  /\ FileDescriptor(<<"root", "nested">>, MyDefinitions) \in imported
  /\ FileDescriptor(<<"root", "nested", "nested">>, MyDefinitions) \in imported
  /\ impLast.op = "import_file_set"
  /\ impLast.again
  /\ Len(units) = 3
  /\ units[2].definitions = MyDefinitions \cup {"OtherMessage"}

(***************************************************************************)
(* Claims about Service.definition_name.                                   *)
(***************************************************************************)
\* C22: definition_name() of a service class is its package and its own
\* class name (the class name alone when the module is unknown), whatever
\* definition_name() calls were made before on it, its bases or its
\* subclasses.
C22_DefinitionNameIsOwn ==
  dnLast.cls # 0
    => dnLast.returned = ComputedName(sys_modules, ServiceClasses[dnLast.cls])

(***************************************************************************)
(* Claims about remote methods declared with the names of their types.     *)
(***************************************************************************)
\* The stored type that the latest read was of, before and after the step.
ReadOf(info, op) ==
  IF op = "request_type" THEN info.request_type ELSE info.response_type

Servable(environ) ==
  /\ environ.route = "POST"
  /\ environ.method_name = "method1"
  /\ environ.content_type # None
  /\ environ.content_type \in RegisteredContentTypes

Executed(answer) == \E i \in 1..Len(answer.trace) : answer.trace[i] = "method"

Answered200(answer) ==
  \E i \in 1..Len(answer.start_response) : answer.start_response[i].status = "200 OK"

\* C24: run_application runs a remote method and answers 200 OK with the
\* content type of the request only for a POST to the service path that
\* names a remote method with a registered content type; for every other
\* request no method is run and one error status is sent with
\* content-length 0 and the content type of the request when that is
\* registered, text/html otherwise.
C24_MethodRunsOnlyForServableRequests ==
  handled > 0
    => LET environ == appLast.environ
           answer == appLast.answer
       IN  /\ Executed(answer) \/ Answered200(answer) => Servable(environ)
           /\ Answered200(answer)
                => answer.start_response[1].content_type = environ.content_type
           /\ ~Servable(environ)
                => /\ ~Executed(answer)
                   /\ Len(answer.start_response) = 1
                   /\ answer.start_response[1].status \in {"400", "404"}
                   /\ answer.start_response[1].content_length = "0"
                   /\ answer.start_response[1].content_type =
                        (IF environ.content_type # None
                            /\ environ.content_type \in RegisteredContentTypes
                           THEN environ.content_type ELSE "text/html")

\* C30: every request handled by run_application ends with start_response
\* called exactly once, and no exception leaves the application: also when
\* the path names no method, when the body cannot be decoded and when the
\* remote method raises.
C30_StartResponseExactlyOnce ==
  handled > 0 => Len(appLast.answer.start_response) = 1

(***************************************************************************)
(* Claims about what a terminal Rpc holds.                                 *)
(***************************************************************************)
\* C25: a set_response call that is rejected because the Rpc is already
\* terminal leaves the stored response as it was: none on an Rpc that ended
\* in an error state, the response of the first set_response on an Rpc that
\* ended OK.
C25_RejectedSetResponseStoresNothing ==
  [][(/\ Terminal(rpc)
      /\ rpc'.id = rpc.id
      /\ last'.op = "set_response"
      /\ last'.raised.type = "RpcStateError")
       => rpc'.response = rpc.response]_vars

\* C26: an Rpc in state OK holds a response and has neither error_message
\* nor error_name, whatever set_response and set_status calls were made.
C26_OkRpcHasResponse ==
  rpc.state = OK
    => /\ rpc.response # None
       /\ rpc.error_message = None
       /\ rpc.error_name = None

(***************************************************************************)
(* Claims about a refused registration.                                    *)
(***************************************************************************)
\* C27: an add_protocol_config call that raises leaves the registry as it
\* was: names and content_types are the same, and so is every lookup by
\* name and by content type; neither the name of the config nor a content
\* type of it that was free has become registered.
C27_RefusedConfigChangesNothing ==
  [][(regLast'.op = "add_protocol_config" /\ regLast'.raised # NoException
      /\ made' = made + 1)
       => /\ names(protocols') = names(protocols)
          /\ content_types(protocols') = content_types(protocols)
          /\ \A n \in ProtocolNames :
               lookup_by_name(protocols', n) = lookup_by_name(protocols, n)
          /\ \A t \in RegistryContentTypes :
               lookup_by_content_type(protocols', t) = lookup_by_content_type(protocols, t)]_vars

\* A config with a free name, a taken content type and a free content type
\* has been refused, and its name and its free content type are not
\* registered.
C27_Witness ==
  /\ regLast.op = "add_protocol_config"
  /\ regLast.raised.type = "ServiceConfigurationError"
  /\ regLast.config.name \notin names(protocols)
  /\ \E t \in TypesOf(regLast.config) : t \in content_types(protocols)
  /\ \E t \in TypesOf(regLast.config) : t \notin content_types(protocols)

(***************************************************************************)
(* Claims about a service class with several bases.                        *)
(***************************************************************************)
TypesOfMethod(value) ==
  [request_type |-> value.request_type, response_type |-> value.response_type]

\* C28: for every service class, also one with several base service classes
\* that declare a remote method of the same name, each name of
\* all_remote_methods() is registered with the method that attribute lookup
\* on the class gives, and the methods of AsyncStub and Stub of that name
\* carry the request and response types of that method.
C28_RegisteredIsWhatLookupGives ==
  \A c \in 1..Len(hierarchy) :
    \A k \in DOMAIN all_remote_methods(hierarchy[c]) :
      /\ all_remote_methods(hierarchy[c])[k] = getattr(hierarchy, c, k)
      /\ hierarchy[c].AsyncStub[k] = TypesOfMethod(getattr(hierarchy, c, k))
      /\ hierarchy[c].Stub[k] = TypesOfMethod(getattr(hierarchy, c, k))

(***************************************************************************)
(* Claims about two callers of one Rpc.                                    *)
(***************************************************************************)
\* C29: when two callers observe (read response or call wait on) the same
\* RUNNING Rpc of HttpTransport at the same time, the blocking fetch is
\* performed once, the Rpc leaves RUNNING once and keeps its terminal state,
\* and neither caller gets an RpcStateError.
C29_OneFetchForTwoObservers ==
  [][/\ performed' <= 1
     /\ shared.state # RUNNING => shared'.state = shared.state
     /\ \A t \in Callers : local'[t].raised.type # "RpcStateError"]_vars

====
